---- MODULE Spec2Model ----
(***************************************************************************)
(* ProxyCloud-Desktop: the engine process supervisor                       *)
(* (utils/xray_process.py), the system proxy controller                    *)
(* (utils/system_proxy.py), the latency prober (utils/ping_utils.py), the  *)
(* configuration synthesizer (utils/xray_config.py) and the link decoder   *)
(* (utils/proxy_parser.py).  Each component has its own specification;     *)
(* the variables of the other components stay parked while it runs.        *)
(***************************************************************************)
EXTENDS Integers, Sequences, FiniteSets, TLC

None == "None"

(***************************************************************************)
(* Bounds of the model.                                                    *)
(***************************************************************************)
\* process identifiers the operating system hands out
MaxPid == 3
\* engine processes left behind by an earlier, crashed session
MaxOrphans == 1

PidNames == <<"pid1", "pid2", "pid3", "pid4", "pid5", "pid6">>
Pids == { PidNames[i] : i \in 1..MaxPid }
ConfigPaths == {"configs/a.json", "configs/b.json"}

VARIABLES
    \* XrayProcessManager
    is_running,     \* self.is_running
    process,        \* self.process: None or the pid of the Popen handle
    config_path,    \* self.config_path
    procs,          \* the OS process table, engine-named processes only:
                    \* pid -> "free" | "mgr" (alive, launched by this manager)
                    \*      | "other" (alive, launched by someone else)
    op,             \* the last step taken: the name of the call, or "exit"
    ret,            \* what the last call returned (get_status: "running")
    ret_pid,        \* the "pid" the last get_status reported
    log,            \* what the last call did to processes, in order
    pre             \* the manager's fields when the last call began

procVars == <<is_running, process, config_path, procs, op, ret, ret_pid, log, pre>>

(***************************************************************************)
(* XrayProcessManager, as functions from the state at the call to the set  *)
(* of states the call can end in: the environment decides whether a signal *)
(* is delivered, when a process exits and whether a launch succeeds.       *)
(***************************************************************************)

\* the manager's fields and the process table as one value
Snapshot ==
    [is_running |-> is_running, process |-> process, config_path |-> config_path,
     procs |-> procs, ret |-> FALSE, ret_pid |-> None, log |-> <<>>]

Alive(s, p) == p # None /\ s.procs[p] # "free"

Ev(kind, p, ok) == [ev |-> kind, pid |-> p, ok |-> ok, n |-> 0]
Polled(p, k, gone) == [ev |-> "POLL", pid |-> p, ok |-> gone, n |-> k]

\* XrayProcessManager.__init__
ManagerInit ==
    /\ is_running = FALSE
    /\ process = None
    /\ config_path = None

\* os.kill(pid, SIGTERM) / Popen.terminate(): delivered, or raising while
\* the process lives on (PermissionError); a process already gone takes
\* the signal without effect
Terminate(s) ==
    LET p == s.process IN
    IF Alive(s, p)
    THEN { [st |-> [s EXCEPT !.log = Append(@, Ev("TERM", p, TRUE))], raised |-> FALSE],
           [st |-> [s EXCEPT !.log = Append(@, Ev("TERM", p, FALSE))], raised |-> TRUE] }
    ELSE { [st |-> [s EXCEPT !.log = Append(@, Ev("TERM", p, TRUE))], raised |-> FALSE] }

\* the number of polls of the wait loop
PollLimit == 10

\* the wait loop and the check after it: the process is seen gone by the
\* k-th poll of the loop, or only by the check after the loop (k =
\* PollLimit + 1), or not at all
WaitForExit(s) ==
    LET p == s.process IN
    IF ~Alive(s, p)
    THEN { [st |-> [s EXCEPT !.log = Append(@, Polled(p, 1, TRUE))], alive |-> FALSE] }
    ELSE { [st |-> [s EXCEPT !.procs[p] = "free",
                             !.log = Append(@, Polled(p, k, TRUE))],
            alive |-> FALSE] : k \in 1..(PollLimit + 1) }
         \cup
         { [st |-> [s EXCEPT !.log = Append(@, Polled(p, PollLimit + 1, FALSE))], alive |-> TRUE] }

\* (mutant) a force-kill that is sent and leaves the process alive
ForceKillIgnored(s) ==
    LET p == s.process IN
    { [st |-> [s EXCEPT !.log = Append(@, Ev("KILL", p, TRUE))], raised |-> FALSE],
      [st |-> [s EXCEPT !.log = Append(@, Ev("KILL", p, FALSE))], raised |-> TRUE] }

\* os.kill(pid, SIGKILL) / Popen.kill() on a process still alive
ForceKill(s) ==
    LET p == s.process IN
    { [st |-> [s EXCEPT !.procs[p] = "free", !.log = Append(@, Ev("KILL", p, TRUE))],
       raised |-> FALSE],
      [st |-> [s EXCEPT !.log = Append(@, Ev("KILL", p, FALSE))], raised |-> TRUE] }

\* the engine-named processes the sweep acts on: all but the manager's own
SweepTargets(s) == { q \in Pids : s.procs[q] # "free" /\ q # s.process }

RECURSIVE SweepFrom(_, _)
\* _kill_remaining_xray_processes from pid q on: each target is terminated
\* and waited for; AccessDenied and NoSuchProcess skip it; any other error
\* (the wait timing out, a process whose name cannot be read) ends the sweep
SweepFrom(s, i) ==
    IF i > MaxPid THEN {s}
    ELSE LET q == PidNames[i] IN
         IF q \notin SweepTargets(s) THEN SweepFrom(s, i + 1)
         ELSE SweepFrom([s EXCEPT !.procs[q] = "free",
                                  !.log = Append(@, Ev("SWEEP", q, TRUE))], i + 1)
              \cup SweepFrom([s EXCEPT !.log = Append(@, Ev("SWEEP", q, FALSE))], i + 1)
              \cup { [s EXCEPT !.log = Append(@, Ev("SWEEP", q, TRUE))] }
              \cup { s }

kill_remaining_xray_processes(s) == SweepFrom(s, 1)

\* (mutant) the not-running branch sweeping the process table as well
StopIdleSweeping(s) ==
    { [x EXCEPT !.is_running = FALSE, !.process = None, !.ret = TRUE]
      : x \in kill_remaining_xray_processes(s) }

\* stop, lines 111-114: nothing to stop
StopIdle(s) ==
    { [s EXCEPT !.is_running = FALSE, !.process = None, !.ret = TRUE] }

\* stop, lines 152-154
StopDone(s) == [s EXCEPT !.is_running = FALSE, !.process = None, !.ret = TRUE]

\* (mutant) the except branch leaving the fields as they are
StopFailedKeeping(s) == [s EXCEPT !.ret = FALSE]

\* stop, lines 155-160: the except branch
StopFailed(s) == [s EXCEPT !.is_running = FALSE, !.process = None, !.ret = FALSE]

\* (mutant) the force-kill sent without looking at the result of the wait
StopRunningKilling(s) ==
    UNION { IF t.raised THEN { StopFailed(t.st) }
            ELSE UNION { UNION { IF k.raised THEN { StopFailed(k.st) }
                                 ELSE { StopDone(x) : x \in kill_remaining_xray_processes(k.st) }
                                 : k \in ForceKill(w.st) }
                         : w \in WaitForExit(t.st) }
            : t \in Terminate(s) }

\* (mutant) a sweep that left a process alive passed on as an error
StopRunningPropagating(s) ==
    UNION { IF t.raised THEN { StopFailed(t.st) }
            ELSE UNION { IF w.alive
                         THEN UNION { IF k.raised THEN { StopFailed(k.st) }
                                      ELSE { IF SweepTargets(x) = {} THEN StopDone(x)
                                             ELSE StopFailed(x)
                                             : x \in kill_remaining_xray_processes(k.st) }
                                      : k \in ForceKill(w.st) }
                         ELSE { IF SweepTargets(x) = {} THEN StopDone(x) ELSE StopFailed(x)
                                : x \in kill_remaining_xray_processes(w.st) }
                         : w \in WaitForExit(t.st) }
            : t \in Terminate(s) }

\* stop, lines 116-160
StopRunning(s) ==
    UNION { IF t.raised THEN { StopFailed(t.st) }
            ELSE UNION { IF w.alive
                         THEN UNION { IF k.raised THEN { StopFailed(k.st) }
                                      ELSE { StopDone(x) : x \in kill_remaining_xray_processes(k.st) }
                                      : k \in ForceKill(w.st) }
                         ELSE { StopDone(x) : x \in kill_remaining_xray_processes(w.st) }
                         : w \in WaitForExit(t.st) }
            : t \in Terminate(s) }

stop(s) ==
    IF ~s.is_running \/ s.process = None THEN StopIdle(s) ELSE StopRunning(s)

\* a pid the OS can give to a new process
FreePids(s) == { q \in Pids : s.procs[q] = "free" /\ q # s.process }

\* (mutant) the launch recorded as running without the check after the
\* grace period
LaunchUnchecked(s, path) ==
    { [s EXCEPT !.ret = FALSE,
                !.log = Append(@, [ev |-> "LAUNCH", pid |-> None, ok |-> FALSE, n |-> 0,
                                   live |-> {}, path |-> path])] }
    \cup
    UNION { LET q == CHOOSE x \in FreePids(s) : TRUE
                live == { x \in Pids : s.procs[x] = "mgr" }
                l == [ev |-> "LAUNCH", pid |-> q, ok |-> TRUE, n |-> 0, live |-> live, path |-> path]
            IN { [s EXCEPT !.process = q, !.procs[q] = "mgr", !.is_running = TRUE,
                           !.ret = TRUE, !.log = Append(@, l)],
                 [s EXCEPT !.process = q, !.is_running = TRUE, !.ret = TRUE,
                           !.log = Append(@, l)] }
            : dummy \in IF FreePids(s) = {} THEN {} ELSE {0} }

\* start, lines 59-105: the launch and the liveness check after the grace
\* period
Launch(s, path) ==
    { [s EXCEPT !.ret = FALSE,
                !.log = Append(@, [ev |-> "LAUNCH", pid |-> None, ok |-> FALSE, n |-> 0,
                                   live |-> {}, path |-> path])] }
    \cup
    UNION { LET q == PidNames[CHOOSE i \in 1..MaxPid : /\ PidNames[i] \in FreePids(s)
                                                          /\ \A j \in 1..(i - 1) : PidNames[j] \notin FreePids(s)]
                live == { x \in Pids : s.procs[x] = "mgr" }
                l == [ev |-> "LAUNCH", pid |-> q, ok |-> TRUE, n |-> 0, live |-> live, path |-> path]
            IN { [s EXCEPT !.process = q, !.procs[q] = "mgr", !.is_running = TRUE,
                           !.ret = TRUE, !.log = Append(@, l)],
                 [s EXCEPT !.process = q, !.ret = FALSE, !.log = Append(@, l)] }
            : dummy \in IF FreePids(s) = {} THEN {} ELSE {0} }

start(s, path) ==
    LET stopped == IF s.is_running THEN stop(s) ELSE {s}
    IN UNION { Launch([x EXCEPT !.config_path = path], path) : x \in stopped }

\* (mutant) restart without the check of the recorded path
restartUnguarded(s) == UNION { start(x, x.config_path) : x \in stop(s) }

restart(s) ==
    IF s.config_path = None THEN { [s EXCEPT !.ret = FALSE] }
    ELSE UNION { start(x, x.config_path) : x \in stop(s) }

\* (mutant) get_status reporting the recorded state without polling
get_statusUnpolled(s) ==
    IF ~s.is_running \/ s.process = None
    THEN { [s EXCEPT !.ret = FALSE, !.ret_pid = None] }
    ELSE { [s EXCEPT !.ret = TRUE, !.ret_pid = s.process] }

\* get_status: the state it leaves and the "running" and "pid" it reports
get_status(s) ==
    IF ~s.is_running \/ s.process = None
    THEN { [s EXCEPT !.ret = FALSE, !.ret_pid = None] }
    ELSE IF ~Alive(s, s.process)
    THEN { [s EXCEPT !.is_running = FALSE, !.process = None,
                     !.ret = FALSE, !.ret_pid = None] }
    ELSE { [s EXCEPT !.ret = TRUE, !.ret_pid = s.process],
           \* the process exits between the poll and the statistics query
           [s EXCEPT !.is_running = FALSE, !.process = None, !.procs[s.process] = "free",
                     !.ret = FALSE, !.ret_pid = None],
           \* the statistics query raises on a live process
           [s EXCEPT !.is_running = FALSE, !.process = None,
                     !.ret = FALSE, !.ret_pid = None] }

(***************************************************************************)
(* SystemProxyManager.  Text is a tuple of its parts, so that the empty    *)
(* string is <<>> and f"127.0.0.1:{port}" is <<"127.0.0.1", port>>; a      *)
(* dict, the registry key and os.environ are functions whose domain is the *)
(* set of keys present.                                                    *)
(***************************************************************************)
Systems == {"Windows", "Darwin", "Linux", "FreeBSD"}

\* the port pairs callers pass to enable; the first is the default pair
PortPairs == { <<10809, 10808>>, <<7890, 7891>> }

Localhost == "127.0.0.1"
CorpProxy == <<"proxy.corp", 3128>>

\* d[k] if k is a key of d, else the default: dict.get
Get(d, k, default) == IF k \in DOMAIN d THEN d[k] ELSE default

\* d with d[k] = v: a dict assignment, winreg.SetValueEx
Put(d, k, v) == [x \in (DOMAIN d) \cup {k} |-> IF x = k THEN v ELSE d[x]]

\* del d[k]
Del(d, k) == [x \in (DOMAIN d) \ {k} |-> d[x]]

EmptyDict == [x \in {} |-> 0]

\* Python truthiness of a string
Truthy(text) == text # <<>>

\* the configurations the OS can be in before the controller touches it
RegistryConfigs ==
    { [reg |-> r] :
        r \in { e @@ sv @@ ov :
                  e \in {EmptyDict, [k \in {"ProxyEnable"} |-> 0], [k \in {"ProxyEnable"} |-> 1]},
                  sv \in {EmptyDict, [k \in {"ProxyServer"} |-> <<>>],
                          [k \in {"ProxyServer"} |-> CorpProxy]},
                  ov \in {EmptyDict, [k \in {"ProxyOverride"} |-> <<>>],
                          [k \in {"ProxyOverride"} |-> <<"*.corp">>]} } }

Service(on, server) == [enabled |-> on, server |-> server]

MacConfigs ==
    { [tool |-> tl, wifi |-> w, web |-> Service(a, sv), secure |-> Service(a, sv),
       socks |-> Service(b, sv)] :
        tl \in BOOLEAN, w \in BOOLEAN, a \in BOOLEAN, b \in BOOLEAN,
        sv \in {<<>>, CorpProxy} }

LinuxConfigs ==
    { [env |-> e, gsettings |-> g, mode |-> m, http |-> h, https |-> h, socks |-> h] :
        e \in {EmptyDict,
               [k \in {"http_proxy", "https_proxy"} |-> <<"http://">> \o CorpProxy],
               [k \in {"http_proxy", "https_proxy", "all_proxy"} |-> <<"http://">> \o CorpProxy]},
        g \in BOOLEAN, m \in {"'none'", "'manual'", "'auto'"},
        h \in {<<"", 0>>, CorpProxy} }

OsConfigs(sys) ==
    CASE sys = "Windows" -> RegistryConfigs
      [] sys = "Darwin" -> MacConfigs
      [] sys = "Linux" -> { c \in LinuxConfigs : c.gsettings \/ (c.mode = "'none'" /\ c.http = <<"", 0>>) }
      [] OTHER -> { [unsupported |-> TRUE] }

VARIABLES
    \* SystemProxyManager
    system,             \* self.system
    http_port,          \* self.http_port
    socks_port,         \* self.socks_port
    is_enabled,         \* self.is_enabled
    previous_settings,  \* self._previous_<system>_settings: <<>> before the
                        \* attribute exists, then <<the dict>>
    os,                 \* the OS proxy configuration
    pop,                \* the last step of the controller
    pret,               \* what the last call returned
    os_at_enable,       \* the OS proxy configuration when the last enable began
    calls,              \* the successful enable/disable calls that ended the
                        \* history so far with nothing else in between:
                        \* "", "E", "EE", "ED" or "EED"
    status_at_call      \* what get_status gave when the last call began

proxyVars == <<system, http_port, socks_port, is_enabled, previous_settings, os,
               pop, pret, os_at_enable, calls, status_at_call>>

\* the controller's fields and the OS configuration as one value
ProxySnapshot ==
    [http_port |-> http_port, socks_port |-> socks_port, is_enabled |-> is_enabled,
     previous_settings |-> previous_settings, os |-> os, ret |-> FALSE]

\* _save_current_windows_settings: the read handle cannot be opened and the
\* slot stays as it was, or the slot is replaced by the three values read
\* (a value that is not there reads as its default)
save_current_windows_settings(s) ==
    { s,
      [s EXCEPT !.previous_settings =
          << [k \in {"ProxyEnable", "ProxyServer", "ProxyOverride"} |->
                CASE k = "ProxyEnable" -> Get(s.os.reg, k, 0)
                  [] k = "ProxyServer" -> Get(s.os.reg, k, <<>>)
                  [] OTHER -> Get(s.os.reg, k, <<"<local>">>)] >>] }

\* winreg.SetValueEx: the value is written, or the call raises
SetValueEx(s, k, v) ==
    { [st |-> [s EXCEPT !.os.reg = Put(@, k, v)], raised |-> FALSE],
      [st |-> s, raised |-> TRUE] }

RECURSIVE SetValues(_, _)
\* a run of SetValueEx calls, ended by the first that raises
SetValues(s, writes) ==
    IF writes = <<>> THEN { [st |-> s, raised |-> FALSE] }
    ELSE UNION { IF w.raised THEN { w } ELSE SetValues(w.st, Tail(writes))
                 : w \in SetValueEx(s, writes[1][1], writes[1][2]) }

\* _enable_windows_proxy
enable_windows_proxy(s) ==
    { [s EXCEPT !.ret = FALSE] }        \* OpenKey raises
    \cup
    UNION { { IF w.raised THEN [w.st EXCEPT !.ret = FALSE]
              ELSE [w.st EXCEPT !.is_enabled = TRUE, !.ret = TRUE]
              : w \in SetValues(x, << <<"ProxyEnable", 1>>,
                                      <<"ProxyServer", <<Localhost, x.http_port>> >>,
                                      <<"ProxyOverride", <<"<local>">> >> >>) }
            : x \in save_current_windows_settings(s) }

\* the writes of _disable_windows_proxy, lines 93-105
RestoreWrites(s) ==
    IF s.previous_settings # <<>>     \* hasattr(self, "_previous_windows_settings")
    THEN LET proxy_enable == Get(s.previous_settings[1], "ProxyEnable", 0)
             proxy_server == Get(s.previous_settings[1], "ProxyServer", <<>>)
             proxy_override == Get(s.previous_settings[1], "ProxyOverride", <<"<local>">>)
         IN << <<"ProxyEnable", proxy_enable>> >>
            \o (IF Truthy(proxy_server) THEN << <<"ProxyServer", proxy_server>> >> ELSE <<>>)
            \o (IF Truthy(proxy_override) THEN << <<"ProxyOverride", proxy_override>> >> ELSE <<>>)
    ELSE << <<"ProxyEnable", 0>> >>

\* _disable_windows_proxy
disable_windows_proxy(s) ==
    { [s EXCEPT !.ret = FALSE] }        \* OpenKey raises
    \cup
    { IF w.raised THEN [w.st EXCEPT !.ret = FALSE]
      ELSE [w.st EXCEPT !.is_enabled = FALSE, !.ret = TRUE]
      : w \in SetValues(s, RestoreWrites(s)) }

\* _save_current_macos_settings: the slot is emptied, then filled from the
\* output of networksetup unless running it raises
save_current_macos_settings(s) ==
    IF ~s.os.tool THEN [s EXCEPT !.previous_settings = <<EmptyDict>>]
    ELSE [s EXCEPT !.previous_settings =
            << [k \in {"http_enabled", "https_enabled", "socks_enabled"} |->
                  CASE k = "http_enabled" -> s.os.wifi /\ s.os.web.enabled
                    [] k = "https_enabled" -> s.os.wifi /\ s.os.secure.enabled
                    [] OTHER -> s.os.wifi /\ s.os.socks.enabled] >>]

\* _enable_macos_proxy: subprocess.run raises when networksetup is not
\* there; a networksetup that finds no "Wi-Fi" service exits non-zero, which
\* subprocess.run without check does not report
enable_macos_proxy(s) ==
    LET x == save_current_macos_settings(s) IN
    IF ~x.os.tool THEN { [x EXCEPT !.ret = FALSE] }
    ELSE IF ~x.os.wifi THEN { [x EXCEPT !.is_enabled = TRUE, !.ret = TRUE] }
    ELSE { [x EXCEPT !.os.web = Service(TRUE, <<Localhost, x.http_port>>),
                     !.os.secure = Service(TRUE, <<Localhost, x.http_port>>),
                     !.os.socks = Service(TRUE, <<Localhost, x.socks_port>>),
                     !.is_enabled = TRUE, !.ret = TRUE] }

\* _disable_macos_proxy
disable_macos_proxy(s) ==
    IF ~s.os.tool THEN { [s EXCEPT !.ret = FALSE] }
    ELSE IF ~s.os.wifi THEN { [s EXCEPT !.is_enabled = FALSE, !.ret = TRUE] }
    ELSE { [s EXCEPT !.os.web.enabled = FALSE, !.os.secure.enabled = FALSE,
                     !.os.socks.enabled = FALSE, !.is_enabled = FALSE, !.ret = TRUE] }

\* _save_current_linux_settings
save_current_linux_settings(s) ==
    LET envs == [k \in DOMAIN s.os.env |-> s.os.env[k]]
    IN [s EXCEPT !.previous_settings =
            << IF s.os.gsettings THEN Put(envs, "gnome_proxy_mode", <<s.os.mode>>) ELSE envs >>]

\* _enable_linux_proxy
enable_linux_proxy(s) ==
    LET x == save_current_linux_settings(s)
        y == [x EXCEPT !.os.env =
                Put(Put(Put(@, "http_proxy", <<"http://", Localhost, x.http_port>>),
                        "https_proxy", <<"http://", Localhost, x.http_port>>),
                    "all_proxy", <<"socks5://", Localhost, x.socks_port>>)]
        z == IF y.os.gsettings
             THEN [y EXCEPT !.os.mode = "'manual'",
                            !.os.http = <<Localhost, y.http_port>>,
                            !.os.https = <<Localhost, y.http_port>>,
                            !.os.socks = <<Localhost, y.socks_port>>]
             ELSE y
    IN { [z EXCEPT !.is_enabled = TRUE, !.ret = TRUE] }

\* _disable_linux_proxy
disable_linux_proxy(s) ==
    LET y == [s EXCEPT !.os.env = Del(Del(Del(@, "http_proxy"), "https_proxy"), "all_proxy")]
        z == IF y.os.gsettings THEN [y EXCEPT !.os.mode = "'none'"] ELSE y
    IN { [z EXCEPT !.is_enabled = FALSE, !.ret = TRUE] }

\* SystemProxyManager.enable
enable(s, sys, hp, sp) ==
    LET x == [s EXCEPT !.http_port = hp, !.socks_port = sp] IN
    CASE sys = "Windows" -> enable_windows_proxy(x)
      [] sys = "Darwin" -> enable_macos_proxy(x)
      [] sys = "Linux" -> enable_linux_proxy(x)
      [] OTHER -> { [x EXCEPT !.ret = FALSE] }

\* SystemProxyManager.disable
disable(s, sys) ==
    CASE sys = "Windows" -> disable_windows_proxy(s)
      [] sys = "Darwin" -> disable_macos_proxy(s)
      [] sys = "Linux" -> disable_linux_proxy(s)
      [] OTHER -> { [s EXCEPT !.ret = FALSE] }

\* SystemProxyManager.get_status
proxy_get_status(s) ==
    [enabled |-> s.is_enabled, http_port |-> s.http_port, socks_port |-> s.socks_port]

(***************************************************************************)
(* ping_utils.  A profile is a dict; the caller's list holds references to *)
(* dicts on the heap, and list.copy() copies the references.  A delay is   *)
(* <<>> for None and <<ms>> for a number; a port is [int |-> n] or, when   *)
(* it is text, [str |-> text].                                             *)
(***************************************************************************)
\* the longest input list
MaxConfigs == 11
\* up to this length every list over the pool is an input
MaxMixed == 2
\* the default of the max_threads parameter
DefaultMaxThreads == 10

NoneDelay == <<>>
PortInt(n) == [int |-> n]
PortStr(x) == [str |-> x]

Profile(server, port) == [k \in {"server", "port"} |-> IF k = "server" THEN server ELSE port]

\* the profiles input lists are made of
ProfilePool ==
    << Profile("fast.example", PortInt(443)),
       Profile("down.example", PortInt(443)),
       Profile("slow.example", PortInt(8388)),
       [k \in {"port"} |-> PortInt(443)],
       Profile("fast.example", PortInt(0)),
       Profile("fast.example", PortStr("https")) >>

\* socket.connect_ex to host:port, timed: the network of the model
ConnectTime(host, port) ==
    CASE host = "fast.example" -> <<20>>
      [] host = "slow.example" -> <<80>>
      [] OTHER -> NoneDelay

\* tcp_ping
tcp_ping(host, port) == ConnectTime(host, port)

\* (mutant) a failed measurement leaving the profile as it was
measure_config_delay_keeping(config) ==
    LET server == Get(config, "server", "")
        port == Get(config, "port", PortInt(0))
    IN IF server = "" \/ ("int" \in DOMAIN port /\ port.int = 0) THEN config
       ELSE IF "int" \notin DOMAIN port THEN config
       ELSE IF tcp_ping(server, port.int) = NoneDelay THEN config
       ELSE Put(config, "delay", tcp_ping(server, port.int))

\* measure_config_delay: the dict with its 'delay' set
measure_config_delay(config) ==
    LET server == Get(config, "server", "")
        port == Get(config, "port", PortInt(0))
    IN IF server = "" \/ ("int" \in DOMAIN port /\ port.int = 0)
       THEN Put(config, "delay", NoneDelay)              \* lines 60-62
       ELSE IF "int" \notin DOMAIN port
       THEN Put(config, "delay", NoneDelay)              \* int(port) raises: lines 70-73
       ELSE Put(config, "delay", tcp_ping(server, port.int))

Max(a, b) == IF a >= b THEN a ELSE b
Min(a, b) == IF a <= b THEN a ELSE b

\* (mutant) slices that each run one position into the next
BatchesOverlapping(list, max_threads0) ==
    LET batch_size == Max(1, Len(list) \div max_threads0)
        starts == { i \in 0..(Len(list) - 1) : i % batch_size = 0 }
    IN [b \in 1..Cardinality(starts) |->
            SubSeq(list, (b - 1) * batch_size + 1, Min(b * batch_size + 1, Len(list)))]

\* lines 92-93: the list cut into slices of batch_size
Batches(list, max_threads) ==
    LET batch_size == Max(1, Len(list) \div max_threads)
        starts == { i \in 0..(Len(list) - 1) : i % batch_size = 0 }
    IN [b \in 1..Cardinality(starts) |->
            SubSeq(list, (b - 1) * batch_size + 1, Min(b * batch_size, Len(list)))]

VARIABLES
    heap,           \* the dicts, by reference
    configs,        \* the caller's list: references into the heap
    max_threads,    \* the max_threads argument
    configs_copy,   \* measure_configs_delay's local list
    batches,        \* its batches
    done,           \* per started thread: how many dicts of its batch it has measured
    joined,         \* how many threads the main thread has joined
    ppc,            \* where the main thread is: "call", "spawn", "join", "returned"
    result,         \* the list returned
    heap_at_call    \* the heap when the call began

pingVars == <<heap, configs, max_threads, configs_copy, batches, done, joined, ppc,
              result, heap_at_call>>

\* the input lists
InputLists ==
    UNION { [1..n -> { ProfilePool[i] : i \in 1..Len(ProfilePool) }] : n \in 0..MaxMixed }
    \cup { [i \in 1..n |-> ProfilePool[((i - 1) % Len(ProfilePool)) + 1]] : n \in 1..MaxConfigs }

\* measure_configs_delay, lines 80-93
CallMeasure ==
    /\ ppc = "call"
    /\ IF configs = <<>>
       THEN /\ result' = <<>>
            /\ ppc' = "returned"
            /\ UNCHANGED <<configs_copy, batches>>
       ELSE /\ configs_copy' = configs
            /\ batches' = Batches(configs_copy', max_threads)
            /\ ppc' = "spawn"
            /\ UNCHANGED result
    /\ UNCHANGED <<heap, configs, max_threads, done, joined, heap_at_call>>

\* lines 97-100: one more thread created and started
SpawnThread ==
    /\ ppc = "spawn"
    /\ done' = Append(done, 0)
    /\ ppc' = IF Len(done) + 1 = Len(batches) THEN "join" ELSE "spawn"
    /\ UNCHANGED <<heap, configs, max_threads, configs_copy, batches, joined, result,
                   heap_at_call>>

\* (mutant) a thread that ends at the first measurement that fails
WorkerStepAborting ==
    /\ \E t \in 1..Len(done) :
        /\ done[t] < Len(batches[t])
        /\ LET ref == batches[t][done[t] + 1]
           IN /\ heap' = [heap EXCEPT ![ref] = measure_config_delay(@)]
              /\ done' = [done EXCEPT ![t] = IF heap'[ref]["delay"] = NoneDelay
                                             THEN Len(batches[t]) ELSE @ + 1]
    /\ UNCHANGED <<configs, max_threads, configs_copy, batches, joined, ppc, result,
                   heap_at_call>>

\* process_batch, lines 87-89: a started thread measures its next dict
WorkerStep ==
    /\ \E t \in 1..Len(done) :
        /\ done[t] < Len(batches[t])
        /\ LET ref == batches[t][done[t] + 1]
           IN heap' = [heap EXCEPT ![ref] = measure_config_delay(@)]
        /\ done' = [done EXCEPT ![t] = @ + 1]
    /\ UNCHANGED <<configs, max_threads, configs_copy, batches, joined, ppc, result,
                   heap_at_call>>

\* (mutant) a join that returns whether or not the thread has finished
JoinThreadNoWait ==
    /\ ppc = "join"
    /\ joined < Len(done)
    /\ joined' = joined + 1
    /\ UNCHANGED <<heap, configs, max_threads, configs_copy, batches, done, ppc, result,
                   heap_at_call>>

\* lines 103-104: thread.join() returns once that thread has finished
JoinThread ==
    /\ ppc = "join"
    /\ joined < Len(done)
    /\ done[joined + 1] = Len(batches[joined + 1])
    /\ joined' = joined + 1
    /\ UNCHANGED <<heap, configs, max_threads, configs_copy, batches, done, ppc, result,
                   heap_at_call>>

\* line 106
ReturnMeasure ==
    /\ ppc = "join"
    /\ joined = Len(done)
    /\ result' = configs_copy
    /\ ppc' = "returned"
    /\ UNCHANGED <<heap, configs, max_threads, configs_copy, batches, done, joined,
                   heap_at_call>>

PingInit ==
    /\ \E list \in InputLists :
        /\ heap = list
        /\ configs = [i \in 1..Len(list) |-> i]
    /\ max_threads \in {2, DefaultMaxThreads}
    /\ configs_copy = <<>>
    /\ batches = <<>>
    /\ done = <<>>
    /\ joined = 0
    /\ ppc = "call"
    /\ result = <<>>
    /\ heap_at_call = heap

\* the prober while another component is looked at
PingParked ==
    /\ heap = <<>>
    /\ configs = <<>>
    /\ max_threads = DefaultMaxThreads
    /\ configs_copy = <<>>
    /\ batches = <<>>
    /\ done = <<>>
    /\ joined = 0
    /\ ppc = "call"
    /\ result = <<>>
    /\ heap_at_call = heap

(***************************************************************************)
(* xray_config.generate_xray_config.  Dicts are functions, lists are       *)
(* tuples; ("k" :> v) @@ d is the dict d with a key added in front.  The   *)
(* text of "alpn" is the tuple of its items and the commas between them.   *)
(***************************************************************************)
\* a KeyError leaving generate_xray_config
KeyError == [error |-> TRUE]
Document(config) == [error |-> FALSE, config |-> config]

Sniffing == [enabled |-> TRUE, destOverride |-> <<"http", "tls">>]

\* lines 52-69
tun_inbound ==
    [tag |-> "tun-in", port |-> 0, protocol |-> "dokodemo-door",
     settings |-> [network |-> "tcp,udp", followRedirect |-> TRUE],
     sniffing |-> Sniffing,
     streamSettings |-> [sockopt |-> [tproxy |-> "tproxy"]]]

\* lines 73-86
http_inbound ==
    [tag |-> "http-in", port |-> 10809, listen |-> Localhost, protocol |-> "http",
     sniffing |-> Sniffing, settings |-> [auth |-> "noauth", udp |-> TRUE]]

\* lines 89-102
socks_inbound ==
    [tag |-> "socks-in", port |-> 10808, listen |-> Localhost, protocol |-> "socks",
     sniffing |-> Sniffing, settings |-> [auth |-> "noauth", udp |-> TRUE]]

\* lines 293-297
direct_outbound == [tag |-> "direct", protocol |-> "freedom", settings |-> EmptyDict]

\* lines 300-304
block_outbound == [tag |-> "block", protocol |-> "blackhole", settings |-> EmptyDict]

\* lines 50-104
Inbounds(tun_mode) == IF tun_mode THEN <<tun_inbound>> ELSE <<http_inbound, socks_inbound>>

\* lines 21-47: the document before the outbounds are set
DefaultConfig(base_config, tun_mode) ==
    LET rules == IF "routing" \in DOMAIN base_config /\ "rules" \in DOMAIN base_config["routing"]
                 THEN base_config["routing"]["rules"]
                 ELSE << [type |-> "field", ip |-> <<"geoip:private">>, outboundTag |-> "direct"] >>
        dns == IF "dns" \in DOMAIN base_config THEN ("dns" :> base_config["dns"]) ELSE EmptyDict
    IN dns @@ [log |-> [loglevel |-> "warning", access |-> "access.log", error |-> "error.log"],
               inbounds |-> Inbounds(tun_mode),
               outbounds |-> <<>>,
               routing |-> [domainStrategy |-> "AsIs", rules |-> rules]]

\* the outbounds of the base template
BaseOutbounds(base_config) ==
    IF base_config # EmptyDict /\ "outbounds" \in DOMAIN base_config
    THEN base_config["outbounds"] ELSE <<>>

\* the first outbound of the base template with this protocol and this key
FirstWith(base_config, protocol, key) ==
    LET obs == BaseOutbounds(base_config)
        hits == { i \in 1..Len(obs) : /\ Get(obs[i], "protocol", "") = protocol
                                       /\ key \in DOMAIN obs[i] }
    IN IF hits = {} THEN <<>>
       ELSE << obs[CHOOSE i \in hits : \A j \in hits : i <= j][key] >>

\* "mux" copied from the base template: lines 139-143, 210-214, 286-290
WithMux(outbound, base_config, protocol) ==
    LET mux == FirstWith(base_config, protocol, "mux")
    IN IF mux = <<>> THEN outbound ELSE Put(outbound, "mux", mux[1])

\* the base stream settings to start from, <<>> when there are none to use
BaseStream(base_config, protocol) ==
    LET found == FirstWith(base_config, protocol, "streamSettings")
    IN IF found # <<>> /\ found[1] # EmptyDict THEN found ELSE <<>>

\* str.split(","): the items between the commas
RECURSIVE SplitCommas(_)
SplitCommas(text) ==
    IF text = <<>> THEN <<>>
    ELSE IF Head(text) = "," THEN SplitCommas(Tail(text))
    ELSE <<Head(text)>> \o SplitCommas(Tail(text))

\* lines 112-143
ss_outbound(pc, base_config) ==
    LET settings == [servers |-> << [address |-> pc["server"], port |-> pc["port"],
                                     method |-> pc["method"], password |-> pc["password"],
                                     level |-> 8] >>]
        base == BaseStream(base_config, "shadowsocks")
        ob == [tag |-> "proxy", settings |-> settings, protocol |-> "shadowsocks"]
        withStream == IF base # <<>> THEN Put(ob, "streamSettings", base[1]) ELSE ob
    IN WithMux(withStream, base_config, "shadowsocks")

\* lines 144-214
vmess_outbound(pc, base_config) ==
    LET settings == [vnext |-> << [address |-> pc["server"], port |-> pc["port"],
                        users |-> << [id |-> pc["uuid"], alterId |-> Get(pc, "alterId", 0),
                                      security |-> Get(pc, "security", "auto"),
                                      level |-> 8] >>] >>]
        base == BaseStream(base_config, "vmess")
        network_type == Get(pc, "network", "tcp")
        s0 == IF base # <<>>
              THEN IF "network" \in DOMAIN pc THEN Put(base[1], "network", network_type)
                   ELSE base[1]
              ELSE [network |-> network_type]
        s1 == IF Get(pc, "tls", FALSE) \/ Get(pc, "security", "") = "tls"
              THEN Put(Put(s0, "security", "tls"), "tlsSettings",
                       [allowInsecure |-> TRUE,
                        serverName |-> Get(pc, "sni", Get(pc, "host", pc["server"]))])
              ELSE s0
        s2 == IF network_type = "ws"
              THEN Put(s1, "wsSettings",
                       [path |-> Get(pc, "ws-path", Get(pc, "path", "/")),
                        headers |-> [Host |-> Get(pc, "ws-host", Get(pc, "host", pc["server"]))]])
              ELSE IF network_type = "h2" \/ network_type = "http"
              THEN Put(s1, "httpSettings",
                       [path |-> Get(pc, "h2-path", Get(pc, "path", "/")),
                        host |-> << Get(pc, "h2-host", Get(pc, "host", pc["server"])) >>])
              ELSE s1
    IN WithMux([tag |-> "proxy", settings |-> settings, protocol |-> "vmess",
                streamSettings |-> s2], base_config, "vmess")

\* lines 215-290
vless_outbound(pc, base_config) ==
    LET settings == [vnext |-> << [address |-> pc["server"], port |-> pc["port"],
                        users |-> << [id |-> pc["uuid"],
                                      encryption |-> Get(pc, "encryption", "none"),
                                      level |-> 8] >>] >>]
        base == BaseStream(base_config, "vless")
        network_type == Get(pc, "network", "tcp")
        s0 == IF base # <<>>
              THEN IF "network" \in DOMAIN pc THEN Put(base[1], "network", network_type)
                   ELSE base[1]
              ELSE [network |-> network_type]
        tls0 == [serverName |-> Get(pc, "sni", pc["server"]), allowInsecure |-> TRUE]
        tls1 == IF Get(pc, "alpn", <<>>) # <<>>
                THEN Put(tls0, "alpn", SplitCommas(pc["alpn"])) ELSE tls0
        tls2 == IF Get(pc, "fp", "") # "" THEN Put(tls1, "fingerprint", pc["fp"]) ELSE tls1
        s1 == IF Get(pc, "security", "") # ""
              THEN IF pc["security"] = "tls"
                   THEN Put(Put(s0, "security", pc["security"]), "tlsSettings", tls2)
                   ELSE Put(s0, "security", pc["security"])
              ELSE s0
        s2 == IF Get(pc, "network", "") = "ws"
              THEN Put(s1, "wsSettings",
                       [path |-> Get(pc, "ws-path", "/"),
                        headers |-> [Host |-> Get(pc, "ws-host", pc["server"])]])
              ELSE IF Get(pc, "network", "") = "grpc"
              THEN Put(s1, "grpcSettings",
                       [serviceName |-> Get(pc, "grpc-service-name", "")])
              ELSE s1
    IN WithMux([tag |-> "proxy", settings |-> settings, protocol |-> "vless",
                streamSettings |-> s2], base_config, "vless")

\* the keys the code subscripts for each type: one missing is a KeyError
Subscripted(type) ==
    CASE type = "ss" -> {"server", "port", "method", "password"}
      [] type = "vmess" -> {"server", "port", "uuid"}
      [] type = "vless" -> {"server", "port", "uuid"}
      [] OTHER -> {}

\* lines 106-290: the proxy outbound
proxy_outbound(pc, base_config) ==
    CASE pc["type"] = "ss" -> ss_outbound(pc, base_config)
      [] pc["type"] = "vmess" -> vmess_outbound(pc, base_config)
      [] pc["type"] = "vless" -> vless_outbound(pc, base_config)
      [] OTHER -> [tag |-> "proxy", settings |-> EmptyDict]

\* (mutant) the fixed outbounds put in front of the proxy outbound
OutboundsProxyLast(pc, base_config) ==
    <<direct_outbound, block_outbound, proxy_outbound(pc, base_config)>>

\* line 306
Outbounds(pc, base_config) ==
    <<proxy_outbound(pc, base_config), direct_outbound, block_outbound>>

\* generate_xray_config, with the content of base.json ({} when there is none)
generate_xray_config(proxy_config, tun_mode, base_config) ==
    IF "type" \notin DOMAIN proxy_config THEN KeyError
    ELSE IF ~(Subscripted(proxy_config["type"]) \subseteq DOMAIN proxy_config) THEN KeyError
    ELSE Document(Put(DefaultConfig(base_config, tun_mode), "outbounds",
                      Outbounds(proxy_config, base_config)))

\* the profiles handed to generate_xray_config
SsProfile ==
    [type |-> "ss", method |-> "aes-256-gcm", password |-> "p", server |-> "1.2.3.4",
     port |-> PortInt(8388), tag |-> "home"]

VmessProfile ==
    [type |-> "vmess", server |-> "v.example", port |-> PortInt(443), uuid |-> "uuid-1",
     alterId |-> 0, security |-> "auto", network |-> "tcp", tag |-> "", tls |-> FALSE]

VlessProfile ==
    [type |-> "vless", server |-> "l.example", port |-> PortInt(443), uuid |-> "uuid-2",
     tag |-> "work", encryption |-> "none"]

ConfigProfiles ==
    { SsProfile, VmessProfile, VlessProfile }
    \cup { Put(Put(Put(VmessProfile, "network", n), "ws-path", "/ws"), "ws-host", "cdn.example")
           : n \in {"ws"} }
    \cup { Put(Put(VmessProfile, "network", n), "tls", TRUE) : n \in {"h2", "quic"} }
    \cup { Put(Put(VmessProfile, "tls", TRUE), "sni", "sni.example") }
    \cup { Put(Put(Put(Put(VlessProfile, "security", "tls"), "sni", "sni.example"),
                   "alpn", <<"h2", ",", "http/1.1">>), "fp", "chrome") }
    \cup { Put(VlessProfile, "security", "reality") }
    \cup { Put(Put(VlessProfile, "network", n), "grpc-service-name", "svc") : n \in {"grpc", "ws"} }
    \* profiles no decoder result has: a key missing, a type not known
    \cup { Del(SsProfile, "password"), Del(VmessProfile, "uuid"), Del(VlessProfile, "server"),
           Del(SsProfile, "type"), Put(SsProfile, "type", "trojan") }

Mux == [enabled |-> TRUE, concurrency |-> 8]

BaseStreamSettings ==
    [network |-> "ws", security |-> "tls",
     tlsSettings |-> [serverName |-> "pinned.example", fingerprint |-> "firefox"],
     wsSettings |-> [path |-> "/base"]]

\* the contents base.json can have
BaseConfigs ==
    { EmptyDict,
      [dns |-> [servers |-> <<"1.1.1.1">>],
       routing |-> [rules |-> << [type |-> "field", outboundTag |-> "block"] >>]],
      [outbounds |-> << [protocol |-> "freedom", tag |-> "direct"],
                        [protocol |-> "vmess", streamSettings |-> BaseStreamSettings, mux |-> Mux],
                        [protocol |-> "vless", streamSettings |-> BaseStreamSettings],
                        [protocol |-> "shadowsocks", streamSettings |-> [network |-> "tcp"],
                         mux |-> Mux] >>] }

VARIABLES
    proxy_config,   \* the profile
    tun_mode,       \* the tun_mode argument
    base_config,    \* what base.json holds
    generated       \* <<>> before the call, then <<what the call gave>>

configVars == <<proxy_config, tun_mode, base_config, generated>>

ConfigInit ==
    /\ proxy_config \in ConfigProfiles
    /\ tun_mode \in BOOLEAN
    /\ base_config \in BaseConfigs
    /\ generated = <<>>

\* the synthesizer while another component is looked at
ConfigParked ==
    /\ proxy_config = SsProfile
    /\ tun_mode = FALSE
    /\ base_config = EmptyDict
    /\ generated = <<>>

Generate ==
    /\ generated = <<>>
    /\ generated' = << generate_xray_config(proxy_config, tun_mode, base_config) >>
    /\ UNCHANGED <<proxy_config, tun_mode, base_config>>

(***************************************************************************)
(* proxy_parser.  A text is the tuple of its atoms: the separators "#",    *)
(* "@", ":", "?", "&", "=" one atom each, and the runs of other characters *)
(* between them one atom each.  A link is a text whose first atom is its   *)
(* scheme.  A decoder returns <<>> for None and <<profile>> for a profile. *)
(***************************************************************************)
NoProfile == <<>>

\* str.startswith
StartsWith(url, prefix) == url # <<>> /\ Head(url) = prefix

\* sep in text
Contains(text, sep) == \E i \in 1..Len(text) : text[i] = sep

FirstIndex(text, sep) ==
    CHOOSE i \in 1..Len(text) : text[i] = sep /\ \A j \in 1..(i - 1) : text[j] # sep

\* text.split(sep, 1) of a text that holds sep
Before(text, sep) == SubSeq(text, 1, FirstIndex(text, sep) - 1)
After(text, sep) == SubSeq(text, FirstIndex(text, sep) + 1, Len(text))

\* text.rstrip('=')
RECURSIVE RStrip(_)
RStrip(text) ==
    IF text # <<>> /\ text[Len(text)] = "=" THEN RStrip(SubSeq(text, 1, Len(text) - 1))
    ELSE text

\* urllib.parse.unquote: the escapes replaced by what they stand for
Unquote(text) == [i \in 1..Len(text) |-> IF text[i] = "%20" THEN " " ELSE text[i]]

\* the base64 runs of the links and the UTF-8 texts they encode; every
\* other run of the links is one that base64 or UTF-8 decoding rejects
Base64 ==
    [b \in {"b64(aes:p)", "b64(aes)", "b64(aes:p@h:443)", "b64(aes:p@h)", "b64(aes@h:443)",
            "b64(:@:0)", "b64(json full)", "b64(json ws)", "b64(json empty)",
            "b64(json port text)", "b64(json port word)", "b64(json list)",
            "b64(not json)"} |->
        CASE b = "b64(aes:p)" -> <<"aes", ":", "p">>
          [] b = "b64(aes)" -> <<"aes">>
          [] b = "b64(aes:p@h:443)" -> <<"aes", ":", "p", "@", "h.example", ":", "443">>
          [] b = "b64(aes:p@h)" -> <<"aes", ":", "p", "@", "h.example">>
          [] b = "b64(aes@h:443)" -> <<"aes", "@", "h.example", ":", "443">>
          [] b = "b64(:@:0)" -> <<":", "@", ":", "0">>
          [] b = "b64(json full)" -> <<"json full">>
          [] b = "b64(json ws)" -> <<"json ws">>
          [] b = "b64(json empty)" -> <<"json empty">>
          [] b = "b64(json port text)" -> <<"json port text">>
          [] b = "b64(json port word)" -> <<"json port word">>
          [] b = "b64(json list)" -> <<"json list">>
          [] b = "b64(not json)" -> <<"not", ":", "json">>]

\* base64.urlsafe_b64decode(...).decode('utf-8') after the padding is
\* repaired: <<>> when it raises, <<text>> otherwise
urlsafe_b64decode(text) ==
    LET run == RStrip(text)
    IN IF Len(run) = 1 /\ run[1] \in DOMAIN Base64 THEN << Base64[run[1]] >> ELSE <<>>

\* a JSON number and a JSON string
JsonNumber(n) == [int |-> n]
JsonString(text) == [str |-> text]

\* the JSON texts of the links that are objects, and the objects
JsonObjects ==
    [j \in {"json full", "json ws", "json empty", "json port text", "json port word"} |->
        CASE j = "json full" ->
                 [add |-> JsonString(<<"v.example">>), port |-> JsonNumber(443),
                  id |-> JsonString(<<"uuid-1">>), aid |-> JsonNumber(0),
                  ps |-> JsonString(<<"office">>)]
          [] j = "json ws" ->
                 [add |-> JsonString(<<"v.example">>), port |-> JsonString(<<"443">>),
                  id |-> JsonString(<<"uuid-1">>), aid |-> JsonString(<<"0">>),
                  net |-> JsonString(<<"ws">>), path |-> JsonString(<<"/ws">>),
                  host |-> JsonString(<<"cdn.example">>), tls |-> JsonString(<<"tls">>)]
          [] j = "json empty" -> EmptyDict
          [] j = "json port text" ->
                 [add |-> JsonString(<<"v.example">>), port |-> JsonString(<<"70000">>),
                  id |-> JsonString(<<"uuid-1">>), net |-> JsonString(<<"quic">>)]
          [] j = "json port word" ->
                 [add |-> JsonString(<<"v.example">>), port |-> JsonString(<<"https">>),
                  id |-> JsonString(<<"uuid-1">>)]]

\* the JSON texts of the links that are valid and not objects
JsonOthers == {"json list"}

\* the decimal numerals of the links
Numerals == [n \in {"443", "0", "70000"} |-> CASE n = "443" -> 443 [] n = "0" -> 0 [] n = "70000" -> 70000]

\* int(text): <<>> for a ValueError, <<n>> otherwise
IntOfText(text) ==
    IF Len(text) = 1 /\ text[1] \in DOMAIN Numerals THEN << Numerals[text[1]] >> ELSE <<>>

\* int(value) of a JSON value
IntOfJson(value) ==
    IF "int" \in DOMAIN value THEN << value.int >> ELSE IntOfText(value.str)

\* config.get(key, default) of a JSON object whose strings are wanted
GetText(config, key, default) ==
    IF key \in DOMAIN config THEN config[key].str ELSE default

\* lines 7-106
parse_ss_url(link) ==
    IF ~StartsWith(link, "ss://") THEN NoProfile
    ELSE
    LET url0 == Tail(link)
        tagged == Contains(url0, "#")
        url == IF tagged THEN Before(url0, "#") ELSE url0
        tag == IF tagged THEN Unquote(After(url0, "#")) ELSE <<>>
        Build(method, password, host, port) ==
            IF IntOfText(port) = <<>> THEN NoProfile
            ELSE << [type |-> "ss", method |-> method, password |-> password,
                     server |-> host, port |-> PortInt(IntOfText(port)[1]), tag |-> tag] >>
        Split(user_info, server_info) ==
            IF ~Contains(user_info, ":") THEN NoProfile
            ELSE IF ~Contains(server_info, ":") THEN NoProfile
            ELSE Build(Before(user_info, ":"), After(user_info, ":"),
                       Before(server_info, ":"), After(server_info, ":"))
    IN IF Contains(url, "@")
       THEN LET user_info == Before(url, "@")
                server_info == After(url, "@")
            IN IF ~Contains(user_info, ":")
               THEN IF urlsafe_b64decode(user_info) = <<>> THEN NoProfile
                    ELSE Split(urlsafe_b64decode(user_info)[1], server_info)
               ELSE Split(user_info, server_info)
       ELSE IF urlsafe_b64decode(url) = <<>> THEN NoProfile
            ELSE LET decoded == urlsafe_b64decode(url)[1]
                 IN IF ~Contains(decoded, "@") THEN NoProfile
                    ELSE Split(Before(decoded, "@"), After(decoded, "@"))

\* lines 108-174
parse_vmess_url(link) ==
    IF ~StartsWith(link, "vmess://") THEN NoProfile
    ELSE
    LET decoded == urlsafe_b64decode(RStrip(Tail(link)))
        isObject == Len(decoded[1]) = 1 /\ decoded[1][1] \in DOMAIN JsonObjects
        config == JsonObjects[decoded[1][1]]
        port == IntOfJson(Get(config, "port", JsonNumber(0)))
        aid == IntOfJson(Get(config, "aid", JsonNumber(0)))
        network == GetText(config, "net", <<"tcp">>)
        result0 == [type |-> "vmess", server |-> GetText(config, "add", <<>>),
                   port |-> PortInt(port[1]), uuid |-> GetText(config, "id", <<>>),
                   alterId |-> aid[1], security |-> GetText(config, "scy", <<"auto">>),
                   network |-> network, tag |-> GetText(config, "ps", <<>>)]
        transport ==
            CASE network = <<"ws">> ->
                     Put(Put(result0, "ws-path", GetText(config, "path", <<>>)),
                         "ws-host", GetText(config, "host", <<>>))
              [] network = <<"h2">> ->
                     Put(Put(result0, "h2-path", GetText(config, "path", <<>>)),
                         "h2-host", GetText(config, "host", <<>>))
              [] network = <<"quic">> ->
                     Put(Put(result0, "quic-security", GetText(config, "quic-security", <<>>)),
                         "quic-key", GetText(config, "quic-key", <<>>))
              [] OTHER -> result0
    IN IF decoded = <<>> THEN NoProfile
       ELSE IF ~isObject THEN NoProfile
       ELSE IF port = <<>> \/ aid = <<>> THEN NoProfile
       ELSE IF GetText(config, "tls", <<>>) = <<"tls">>
            THEN << Put(Put(transport, "tls", TRUE), "sni", GetText(config, "sni", <<>>)) >>
            ELSE << Put(transport, "tls", FALSE) >>

\* urllib.parse.parse_qsl: the name=value pieces between the "&", those
\* without "=" or with a blank value left out
RECURSIVE parse_qsl(_)
parse_qsl(text) ==
    IF text = <<>> THEN <<>>
    ELSE LET piece == IF Contains(text, "&") THEN Before(text, "&") ELSE text
             rest == IF Contains(text, "&") THEN After(text, "&") ELSE <<>>
         IN IF Contains(piece, "=") /\ After(piece, "=") # <<>>
            THEN << <<Unquote(Before(piece, "=")), Unquote(After(piece, "="))>> >> \o parse_qsl(rest)
            ELSE parse_qsl(rest)

\* key in dict(pairs)
HasParam(pairs, key) == \E i \in 1..Len(pairs) : pairs[i][1] = <<key>>

\* dict(pairs).get(key, default): the last pair of a name is the one kept
ParamGet(pairs, key, default) ==
    IF HasParam(pairs, key)
    THEN pairs[CHOOSE i \in 1..Len(pairs) :
                  /\ pairs[i][1] = <<key>>
                  /\ \A j \in (i + 1)..Len(pairs) : pairs[j][1] # <<key>>][2]
    ELSE default

\* lines 176-235
parse_vless_url(link) ==
    IF ~StartsWith(link, "vless://") THEN NoProfile
    ELSE
    LET url0 == Tail(link)
        tagged == Contains(url0, "#")
        url == IF tagged THEN Before(url0, "#") ELSE url0
        tag == IF tagged THEN Unquote(After(url0, "#")) ELSE <<>>
        uuid_part == Before(url, "@")
        server_part == After(url, "@")
        server_info == IF Contains(server_part, "?") THEN Before(server_part, "?") ELSE server_part
        params_str == IF Contains(server_part, "?") THEN After(server_part, "?") ELSE <<>>
        host == Before(server_info, ":")
        port == IntOfText(After(server_info, ":"))
        params == parse_qsl(params_str)
        result0 == [type |-> "vless", server |-> host, port |-> PortInt(port[1]),
                   uuid |-> uuid_part, tag |-> tag,
                   encryption |-> ParamGet(params, "encryption", <<"none">>)]
        secured ==
            IF HasParam(params, "security")
            THEN LET s == Put(result0, "security", ParamGet(params, "security", <<>>))
                 IN IF ParamGet(params, "security", <<>>) = <<"tls">>
                    THEN Put(Put(Put(s, "sni", ParamGet(params, "sni", <<>>)),
                                 "alpn", ParamGet(params, "alpn", <<>>)),
                             "fp", ParamGet(params, "fp", <<>>))
                    ELSE s
            ELSE result0
        type == ParamGet(params, "type", <<>>)
        transported ==
            IF HasParam(params, "type")
            THEN LET n == Put(secured, "network", type)
                 IN CASE type = <<"ws">> ->
                             Put(Put(n, "ws-path", ParamGet(params, "path", <<>>)),
                                 "ws-host", ParamGet(params, "host", <<>>))
                      [] type = <<"h2">> ->
                             Put(Put(n, "h2-path", ParamGet(params, "path", <<>>)),
                                 "h2-host", ParamGet(params, "host", <<>>))
                      [] type = <<"grpc">> ->
                             Put(n, "grpc-service-name", ParamGet(params, "serviceName", <<>>))
                      [] OTHER -> n
            ELSE secured
    IN IF ~Contains(url, "@") THEN NoProfile
       ELSE IF ~Contains(server_info, ":") THEN NoProfile
       ELSE IF port = <<>> THEN NoProfile
       ELSE << transported >>

\* lines 237-249
parse_proxy_url(url) ==
    IF StartsWith(url, "ss://") THEN parse_ss_url(url)
    ELSE IF StartsWith(url, "vmess://") THEN parse_vmess_url(url)
    ELSE IF StartsWith(url, "vless://") THEN parse_vless_url(url)
    ELSE NoProfile

\* the links given to parse_proxy_url
UserInfos ==
    { <<"b64(aes:p)">>, <<"b64(aes:p)", "=">>, <<"b64(aes)">>, <<"garbage">>,
      <<"aes", ":", "p">>, <<":", "p">>, <<>> }

ServerInfos ==
    { <<"h.example", ":", "443">>, <<"h.example">>, <<":", "443">>, <<"h.example", ":", "0">>,
      <<"h.example", ":", "70000">>, <<"h.example", ":", "https">>, <<"h.example", ":">> }

LinkTags == { <<>>, <<"#", "my", "%20", "server">> }

ParamStrings ==
    { <<>>,
      <<"?", "security", "=", "tls", "&", "sni", "=", "sni.example", "&", "type", "=", "ws",
        "&", "path", "=", "/ws", "&", "fp", "=">>,
      <<"?", "type", "=", "tcp", "&", "type", "=", "grpc", "&", "serviceName", "=", "svc",
        "&", "security", "=", "reality", "&", "flag">> }

Links ==
    { <<"ss://">> \o u \o <<"@">> \o s \o g : u \in UserInfos, s \in ServerInfos, g \in LinkTags }
    \cup { <<"ss://", b>> \o g : b \in {"b64(aes:p@h:443)", "b64(aes:p@h)", "b64(aes@h:443)",
                                        "b64(aes:p)", "b64(:@:0)", "garbage"},
                                 g \in LinkTags }
    \cup { <<"vmess://", b>> : b \in DOMAIN Base64 \cup {"garbage"} }
    \cup { <<"vmess://", "b64(json full)", "=", "=">>, <<"vmess://">> }
    \cup { <<"vless://">> \o u \o <<"@">> \o s \o q \o g :
               u \in {<<"uuid-2">>, <<>>}, s \in ServerInfos, q \in ParamStrings, g \in LinkTags }
    \cup { <<"vless://", "uuid-2", ":", "443">>, <<"trojan://", "pw", "@", "h.example", ":", "443">>,
           <<>> }

VARIABLES
    url,        \* the link
    parsed,     \* whether parse_proxy_url has returned
    profile     \* what it returned

parseVars == <<url, parsed, profile>>

ParseInit ==
    /\ url \in Links
    /\ parsed = FALSE
    /\ profile = NoProfile

\* the decoder while another component is looked at
ParseParked ==
    /\ url = <<>>
    /\ parsed = FALSE
    /\ profile = NoProfile

Parse ==
    /\ ~parsed
    /\ parsed' = TRUE
    /\ profile' = parse_proxy_url(url)
    /\ UNCHANGED url

(***************************************************************************)
(* MainWindow.update_ping_results (main.py): the server list is a list of  *)
(* items, each holding a profile dict; the handler writes the measured     *)
(* delays into the items and sorts them.                                   *)
(***************************************************************************)
\* the longest server list
MaxItems == 3

ListProfile(server, port, type) ==
    [k \in {"server", "port", "type"} |->
        CASE k = "server" -> server [] k = "port" -> port [] k = "type" -> type]

\* the profiles the items of the list hold: two answer equally fast, one is
\* down, one carries the delay of an earlier test, one was never tested
ItemProfiles ==
    { ListProfile("fast.example", PortInt(443), "ss"),
      ListProfile("fast.example", PortInt(443), "vmess"),
      Put(ListProfile("slow.example", PortInt(8388), "ss"), "delay", <<5>>),
      Put(ListProfile("down.example", PortInt(443), "vless"), "delay", <<5>>),
      ListProfile("late.example", PortInt(443), "vless") }

\* what measure_configs_delay returned for the lists that were tested
TestedLists ==
    { <<>>,
      << ListProfile("fast.example", PortInt(443), "ss"),
         ListProfile("slow.example", PortInt(8388), "ss"),
         ListProfile("down.example", PortInt(443), "vless"),
         ListProfile("fast.example", PortInt(443), "vmess") >>,
      << ListProfile("down.example", PortInt(443), "vless"),
         ListProfile("slow.example", PortInt(8388), "ss") >> }

Measured(list) == [i \in 1..Len(list) |-> measure_config_delay(list[i])]

\* result.get(k) == config.get(k)
SameField(a, b, k) ==
    /\ (k \in DOMAIN a) = (k \in DOMAIN b)
    /\ k \in DOMAIN a => a[k] = b[k]

\* lines 1097-1099
Matches(res, config) ==
    /\ SameField(res, config, "server")
    /\ SameField(res, config, "port")
    /\ SameField(res, config, "type")

\* lines 1091-1108: the delay of the first matching result written into the
\* item's profile
WithResult(item, results) ==
    LET hits == { i \in 1..Len(results) : Matches(results[i], item.config) }
    IN IF hits = {} THEN item
       ELSE LET first == CHOOSE i \in hits : \A j \in hits : i <= j
            IN [item EXCEPT !.config = Put(@, "delay", Get(results[first], "delay", NoneDelay))]

\* (mutant) an item without a delay sorted as the smallest
SortKeyNoneFirst(item) ==
    LET delay == Get(item.config, "delay", NoneDelay)
    IN IF delay = NoneDelay THEN [inf |-> FALSE, ms |-> 0] ELSE [inf |-> FALSE, ms |-> delay[1]]

\* lines 1119-1120: float('inf') for an item without a delay, else the delay
SortKey(item) ==
    LET delay == Get(item.config, "delay", NoneDelay)
    IN IF delay = NoneDelay THEN [inf |-> TRUE, ms |-> 0] ELSE [inf |-> FALSE, ms |-> delay[1]]

\* a < b on the keys
KeyLess(a, b) == ~a.inf /\ (b.inf \/ a.ms < b.ms)

\* list.sort(key=...): stable, so an item goes behind the items already
\* placed whose key is not greater
RECURSIVE InsertByKey(_, _)
InsertByKey(sorted, item) ==
    IF sorted = <<>> THEN <<item>>
    ELSE IF KeyLess(SortKey(item), SortKey(sorted[Len(sorted)]))
    THEN Append(InsertByKey(SubSeq(sorted, 1, Len(sorted) - 1), item), sorted[Len(sorted)])
    ELSE Append(sorted, item)

RECURSIVE SortItems(_)
SortItems(items) ==
    IF items = <<>> THEN <<>>
    ELSE InsertByKey(SortItems(SubSeq(items, 1, Len(items) - 1)), items[Len(items)])

VARIABLES
    server_list,    \* self.server_list: the items, each [id, config]
    current_row,    \* the selected row, -1 when there is none
    ping_results,   \* the list the ping thread emitted
    list_before,    \* the server list when the handler began
    updated         \* whether update_ping_results has run

listVars == <<server_list, current_row, ping_results, list_before, updated>>

ListInit ==
    /\ \E n \in 0..MaxItems : \E cs \in [1..n -> ItemProfiles] :
        server_list = [i \in 1..n |-> [id |-> i, config |-> cs[i]]]
    /\ current_row = -1
    /\ \E tested \in TestedLists : ping_results = Measured(tested)
    /\ list_before = server_list
    /\ updated = FALSE

\* the server list while another component is looked at
ListParked ==
    /\ server_list = <<>>
    /\ current_row = -1
    /\ ping_results = <<>>
    /\ list_before = <<>>
    /\ updated = FALSE

\* update_ping_results, lines 1089-1128
update_ping_results ==
    /\ ~updated
    /\ updated' = TRUE
    /\ server_list' = SortItems([i \in 1..Len(server_list) |->
                                     WithResult(server_list[i], ping_results)])
    /\ current_row' = IF Len(server_list) > 0 THEN 0 ELSE current_row
    /\ list_before' = server_list
    /\ UNCHANGED ping_results

(***************************************************************************)
(* main.MainWindow: the handlers that drive the supervisor and the         *)
(* controller.  A handler is a function from the state of the window, the  *)
(* supervisor and the controller at its start to the set of states it can  *)
(* end in.  w.x is the supervisor, w.p the controller, w.checked the       *)
(* "Enable System Proxy" checkbox, w.enables what each enable() the        *)
(* handler made was called under.                                          *)
(***************************************************************************)
VARIABLES
    enable_system_proxy,    \* the checkbox
    mpc,                    \* "init" inside __init__ before load_settings, then "ready"
    mop,                    \* the last handler run
    enables                 \* per enable() of the last handler: who called it,
                            \* is_running at the call, and what the start
                            \* before it returned (<<>> when there was none)

mainVars == <<enable_system_proxy, mpc, mop, enables>>

\* main.py line 853
CurrentConfigPath == "configs/current_config.json"

\* self.system_proxy.enable(), with the default ports
CallEnable(w, by) ==
    { [w EXCEPT !.p = o, !.pop = "enable",
                !.enables = Append(@, [by |-> by, running |-> w.x.is_running,
                                       started |-> w.started])]
      : o \in enable([w.p EXCEPT !.ret = FALSE], system, 10809, 10808) }

\* self.system_proxy.disable()
CallDisable(w) ==
    { [w EXCEPT !.p = o, !.pop = "disable"]
      : o \in disable([w.p EXCEPT !.ret = FALSE], system) }

\* (mutant) connect switching the system proxy on whatever start returned
connectUnchecked(w, ready) ==
    IF ~ready THEN {w}
    ELSE UNION { LET w1 == [w EXCEPT !.x = s, !.xop = "start", !.started = <<s.ret>>]
                 IN IF w.checked THEN CallEnable(w1, "connect") ELSE {w1}
                 : s \in start([w.x EXCEPT !.ret = FALSE, !.ret_pid = None, !.log = <<>>],
                               CurrentConfigPath) }

\* connect, lines 821-924; ready: a server is selected, it has a
\* configuration, and the document made of it was saved
connect(w, ready) ==
    IF ~ready THEN {w}
    ELSE UNION { LET w1 == [w EXCEPT !.x = s, !.xop = "start", !.started = <<s.ret>>]
                 IN IF s.ret
                    THEN IF w.checked THEN CallEnable(w1, "connect") ELSE {w1}
                    ELSE {w1}
                 : s \in start([w.x EXCEPT !.ret = FALSE, !.ret_pid = None, !.log = <<>>],
                               CurrentConfigPath) }

\* disconnect, lines 926-981
disconnect(w) ==
    UNION { LET w1 == [w EXCEPT !.x = s, !.xop = "stop"]
            IN IF s.ret
               THEN IF w.p.is_enabled THEN CallDisable(w1) ELSE {w1}
               ELSE {w1}
            : s \in stop([w.x EXCEPT !.ret = FALSE, !.ret_pid = None, !.log = <<>>]) }

\* toggle_connection, lines 814-819
toggle_connection(w, ready) ==
    IF w.x.is_running THEN disconnect(w) ELSE connect(w, ready)

\* (mutant) the checkbox switching the system proxy on whether or not the
\* engine runs
toggle_system_proxyUnguarded(w, enabled) ==
    IF enabled THEN CallEnable(w, "toggle_system_proxy") ELSE {w}

\* toggle_system_proxy, lines 1130-1138
toggle_system_proxy(w, enabled) ==
    IF enabled
    THEN IF w.x.is_running THEN CallEnable(w, "toggle_system_proxy") ELSE CallDisable(w)
    ELSE {w}

\* QCheckBox.setChecked / a click: 'toggled' is emitted when the state changes
setChecked(w, checked) ==
    IF checked = w.checked THEN {w}
    ELSE toggle_system_proxy([w EXCEPT !.checked = checked], checked)

\* (mutant) load_settings applying the saved system-proxy setting whether
\* or not the engine runs
load_settingsUnguarded(w, settings) ==
    IF ~settings.found THEN {w}
    ELSE UNION { UNION { IF settings.auto_connect THEN connect(w2, TRUE) ELSE {w2}
                         : w2 \in IF settings.system_proxy
                                  THEN CallEnable(w1, "load_settings") ELSE {w1} }
                 : w1 \in setChecked(w, settings.system_proxy) }

\* load_settings, lines 1230-1286; settings.found: the settings file is
\* there and can be read; settings.auto_connect: auto_connect is set and a
\* server is listed
load_settings(w, settings) ==
    IF ~settings.found THEN {w}
    ELSE UNION { UNION { IF settings.auto_connect THEN connect(w2, TRUE) ELSE {w2}
                         : w2 \in IF w1.x.is_running /\ settings.system_proxy
                                  THEN CallEnable(w1, "load_settings") ELSE {w1} }
                 : w1 \in setChecked(w, settings.system_proxy) }

\* settings.json, as far as load_settings reads it
Settings == [found : BOOLEAN, system_proxy : BOOLEAN, auto_connect : BOOLEAN]

(***************************************************************************)
(* The controller's specification: one call in flight at a time, and other *)
(* programs changing the OS proxy configuration between calls.             *)
(***************************************************************************)
ApplyProxy(o) ==
    /\ http_port' = o.http_port
    /\ socks_port' = o.socks_port
    /\ is_enabled' = o.is_enabled
    /\ previous_settings' = o.previous_settings
    /\ os' = o.os
    /\ pret' = o.ret

EnableCall ==
    /\ \E pp \in PortPairs : \E o \in enable(ProxySnapshot, system, pp[1], pp[2]) :
        /\ ApplyProxy(o)
        /\ calls' = IF ~o.ret THEN "" ELSE IF calls \in {"E", "EE"} THEN "EE" ELSE "E"
    /\ pop' = "enable"
    /\ os_at_enable' = os
    /\ status_at_call' = proxy_get_status(ProxySnapshot)
    /\ UNCHANGED system
    /\ UNCHANGED <<procVars, pingVars, configVars, parseVars, listVars, mainVars>>

DisableCall ==
    /\ \E o \in disable(ProxySnapshot, system) :
        /\ ApplyProxy(o)
        /\ calls' = IF ~o.ret THEN "" ELSE IF calls = "E" THEN "ED"
                    ELSE IF calls = "EE" THEN "EED" ELSE ""
    /\ pop' = "disable"
    /\ status_at_call' = proxy_get_status(ProxySnapshot)
    /\ UNCHANGED <<system, os_at_enable>>
    /\ UNCHANGED <<procVars, pingVars, configVars, parseVars, listVars, mainVars>>

\* another program points the OS at the corporate proxy
ExternalChange ==
    /\ system \in {"Windows", "Darwin", "Linux"}
    /\ os' = CASE system = "Windows" ->
                    [os EXCEPT !.reg = Put(Put(@, "ProxyEnable", 1), "ProxyServer", CorpProxy)]
                [] system = "Darwin" ->
                    [os EXCEPT !.web = Service(TRUE, CorpProxy), !.secure = Service(TRUE, CorpProxy)]
                [] OTHER ->
                    [os EXCEPT !.env = Put(@, "http_proxy", <<"http://">> \o CorpProxy)]
    /\ os' # os
    /\ pop' = "external"
    /\ calls' = ""
    /\ UNCHANGED <<system, http_port, socks_port, is_enabled, previous_settings, pret,
                   os_at_enable, status_at_call>>
    /\ UNCHANGED <<procVars, pingVars, configVars, parseVars, listVars, mainVars>>

\* SystemProxyManager.__init__
ProxyManagerInit ==
    /\ http_port = 10809
    /\ socks_port = 10808
    /\ is_enabled = FALSE
    /\ previous_settings = <<>>

\* the controller while another component is looked at
ProxyParked ==
    /\ system = "Linux"
    /\ ProxyManagerInit
    /\ os = [unsupported |-> TRUE]
    /\ pop = "init"
    /\ pret = FALSE
    /\ os_at_enable = os
    /\ calls = ""
    /\ status_at_call = proxy_get_status(ProxySnapshot)

ProxyInit ==
    /\ system \in Systems
    /\ ProxyManagerInit
    /\ os \in OsConfigs(system)
    /\ pop = "init"
    /\ pret = FALSE
    /\ os_at_enable = os
    /\ calls = ""
    /\ status_at_call = proxy_get_status(ProxySnapshot)

ProxyNext == EnableCall \/ DisableCall \/ ExternalChange

(***************************************************************************)
(* The supervisor's specification: one call in flight at a time.           *)
(***************************************************************************)
Apply(name, o) ==
    /\ is_running' = o.is_running
    /\ process' = o.process
    /\ config_path' = o.config_path
    /\ procs' = o.procs
    /\ ret' = o.ret
    /\ ret_pid' = o.ret_pid
    /\ log' = o.log
    /\ op' = name
    /\ pre' = [is_running |-> is_running, process |-> process, config_path |-> config_path,
               procs |-> procs]
    /\ UNCHANGED <<proxyVars, pingVars, configVars, parseVars, listVars, mainVars>>

StartCall ==
    /\ FreePids(Snapshot) # {}
    /\ \E path \in ConfigPaths : \E o \in start(Snapshot, path) : Apply("start", o)

StopCall == \E o \in stop(Snapshot) : Apply("stop", o)

RestartCall ==
    /\ config_path = None \/ FreePids(Snapshot) # {}
    /\ \E o \in restart(Snapshot) : Apply("restart", o)

StatusCall == \E o \in get_status(Snapshot) : Apply("get_status", o)

\* an engine process exits on its own
EngineExits ==
    /\ \E p \in Pids :
        /\ procs[p] # "free"
        /\ procs' = [procs EXCEPT ![p] = "free"]
    /\ op' = "exit"
    /\ UNCHANGED <<is_running, process, config_path, ret, ret_pid, log, pre>>
    /\ UNCHANGED <<proxyVars, pingVars, configVars, parseVars, listVars, mainVars>>

\* the supervisor while another component is looked at
ProcParked ==
    /\ ManagerInit
    /\ procs = [p \in Pids |-> "free"]
    /\ op = "init"
    /\ ret = FALSE
    /\ ret_pid = None
    /\ log = <<>>
    /\ pre = [is_running |-> FALSE, process |-> None, config_path |-> None, procs |-> procs]

ProcInit ==
    /\ ManagerInit
    /\ \E n \in 0..MaxOrphans :
        procs = [p \in Pids |-> IF \E i \in 1..n : PidNames[i] = p THEN "other" ELSE "free"]
    /\ op = "init"
    /\ ret = FALSE
    /\ ret_pid = None
    /\ log = <<>>
    /\ pre = [is_running |-> FALSE, process |-> None, config_path |-> None, procs |-> procs]

ProcNext == StartCall \/ StopCall \/ RestartCall \/ StatusCall \/ EngineExits

(***************************************************************************)
(* The prober's specification: the main thread and the workers it started  *)
(* interleave.                                                             *)
(***************************************************************************)
PingCall == CallMeasure /\ UNCHANGED <<procVars, proxyVars, configVars, parseVars, listVars, mainVars>>
PingSpawn == SpawnThread /\ UNCHANGED <<procVars, proxyVars, configVars, parseVars, listVars, mainVars>>
PingWork == WorkerStep /\ UNCHANGED <<procVars, proxyVars, configVars, parseVars, listVars, mainVars>>
PingJoin == JoinThread /\ UNCHANGED <<procVars, proxyVars, configVars, parseVars, listVars, mainVars>>
PingReturn == ReturnMeasure /\ UNCHANGED <<procVars, proxyVars, configVars, parseVars, listVars, mainVars>>

PingNext == PingCall \/ PingSpawn \/ PingWork \/ PingJoin \/ PingReturn

(***************************************************************************)
(* The synthesizer's specification: one call on each input.                *)
(***************************************************************************)
ConfigGenerate == Generate /\ UNCHANGED <<procVars, proxyVars, pingVars, parseVars, listVars, mainVars>>

ConfigNext == ConfigGenerate

(***************************************************************************)
(* The decoder's specification: one call on each link.                     *)
(***************************************************************************)
ParseCall == Parse /\ UNCHANGED <<procVars, proxyVars, pingVars, configVars, listVars, mainVars>>

ParseNext == ParseCall

(***************************************************************************)
(* The server list's specification: one run of the handler on each list.   *)
(***************************************************************************)
UpdateCall ==
    update_ping_results /\ UNCHANGED <<procVars, proxyVars, pingVars, configVars, parseVars, mainVars>>

ListNext == UpdateCall

(***************************************************************************)
(* The main window's specification: the window is constructed, and then    *)
(* the user clicks; the engine can exit on its own between handlers.       *)
(***************************************************************************)
\* the state a handler starts in
MainSnapshot ==
    [x |-> Snapshot, p |-> ProxySnapshot, checked |-> enable_system_proxy,
     enables |-> <<>>, started |-> <<>>, xop |-> "", pop |-> ""]

\* the state a handler ended in becomes the state of the program; of the
\* records kept of the last call of the supervisor and of the controller,
\* only the call and what it returned are kept
ApplyMain(name, w) ==
    /\ IF w.xop = "" THEN UNCHANGED procVars
       ELSE /\ is_running' = w.x.is_running
            /\ process' = w.x.process
            /\ config_path' = w.x.config_path
            /\ procs' = w.x.procs
            /\ ret' = w.x.ret
            /\ ret_pid' = w.x.ret_pid
            /\ op' = w.xop
            /\ log' = <<>>
            /\ UNCHANGED pre
    /\ IF w.pop = "" THEN UNCHANGED proxyVars
       ELSE /\ http_port' = w.p.http_port
            /\ socks_port' = w.p.socks_port
            /\ is_enabled' = w.p.is_enabled
            /\ previous_settings' = w.p.previous_settings
            /\ os' = w.p.os
            /\ pret' = w.p.ret
            /\ pop' = w.pop
            /\ UNCHANGED <<system, os_at_enable, status_at_call, calls>>
    /\ enable_system_proxy' = w.checked
    /\ enables' = w.enables
    /\ mop' = name
    /\ mpc' = "ready"
    /\ UNCHANGED <<pingVars, configVars, parseVars, listVars>>

\* __init__, line 254
LoadSettings ==
    /\ mpc = "init"
    /\ \E settings \in Settings : \E w \in load_settings(MainSnapshot, settings) :
        ApplyMain("load_settings", w)

\* the connect button, lines 350 and 814-819
ClickConnect ==
    /\ mpc = "ready"
    /\ \E ready \in BOOLEAN : \E w \in toggle_connection(MainSnapshot, ready) :
        ApplyMain(IF is_running THEN "disconnect" ELSE "connect", w)

\* the checkbox, lines 530 and 1130-1138
ClickCheckbox ==
    /\ mpc = "ready"
    /\ \E w \in setChecked(MainSnapshot, ~enable_system_proxy) :
        ApplyMain("toggle_system_proxy", w)

\* the engine the manager started exits on its own
EngineDies ==
    /\ process # None
    /\ procs[process] # "free"
    /\ procs' = [procs EXCEPT ![process] = "free"]
    /\ op' = "exit"
    /\ UNCHANGED <<is_running, process, config_path, ret, ret_pid, log, pre>>
    /\ UNCHANGED <<proxyVars, pingVars, configVars, parseVars, listVars, mainVars>>

\* the window before __init__ has run load_settings
MainWindowInit ==
    /\ enable_system_proxy = FALSE
    /\ mpc = "init"
    /\ mop = "init"
    /\ enables = <<>>

\* the window while another component is looked at
MainParked == MainWindowInit

\* the OS proxy configurations the window is looked at under
MainOsConfigs(sys) ==
    { c \in OsConfigs(sys) :
        CASE sys = "Windows" -> c.reg = [k \in {"ProxyEnable"} |-> 0]
          [] sys = "Darwin" -> c.tool /\ c.wifi /\ ~c.web.enabled /\ ~c.socks.enabled
                               /\ c.web.server = <<>>
          [] sys = "Linux" -> c.gsettings /\ c.mode = "'none'" /\ c.env = EmptyDict
                              /\ c.http = <<"", 0>>
          [] OTHER -> TRUE }

\* the window is constructed with no engine of any program running
MainInit ==
    /\ MainWindowInit
    /\ ProcParked
    /\ system \in Systems
    /\ ProxyManagerInit
    /\ os \in MainOsConfigs(system)
    /\ pop = "init"
    /\ pret = FALSE
    /\ os_at_enable = os
    /\ calls = ""
    /\ status_at_call = proxy_get_status(ProxySnapshot)

MainNext == LoadSettings \/ ClickConnect \/ ClickCheckbox \/ EngineDies

vars == <<procVars, proxyVars, pingVars, configVars, parseVars, listVars, mainVars>>

Init == ProcInit /\ ProxyParked /\ PingParked /\ ConfigParked /\ ParseParked /\ ListParked /\ MainParked
Next == ProcNext
Spec == Init /\ [][Next]_vars

InitProxy == ProxyInit /\ ProcParked /\ PingParked /\ ConfigParked /\ ParseParked /\ ListParked /\ MainParked
SpecProxy == InitProxy /\ [][ProxyNext]_vars

InitPing == PingInit /\ ProcParked /\ ProxyParked /\ ConfigParked /\ ParseParked /\ ListParked /\ MainParked
SpecPing == InitPing /\ [][PingNext]_vars

InitConfig == ConfigInit /\ ProcParked /\ ProxyParked /\ PingParked /\ ParseParked /\ ListParked /\ MainParked
SpecConfig == InitConfig /\ [][ConfigNext]_vars

InitParse == ParseInit /\ ProcParked /\ ProxyParked /\ PingParked /\ ConfigParked /\ ListParked /\ MainParked
SpecParse == InitParse /\ [][ParseNext]_vars

InitList == ListInit /\ ProcParked /\ ProxyParked /\ PingParked /\ ConfigParked /\ ParseParked /\ MainParked
SpecList == InitList /\ [][ListNext]_vars

InitMain == MainInit /\ PingParked /\ ConfigParked /\ ParseParked /\ ListParked
SpecMain == InitMain /\ [][MainNext]_vars

(***************************************************************************)
(* The supervisor's properties.                                            *)
(***************************************************************************)
ManagerAlive == { p \in Pids : procs[p] = "mgr" }

IsLaunch(e) == e.ev = "LAUNCH"
Launches == { i \in 1..Len(log) : IsLaunch(log[i]) }

\* C1: in every reachable state at most one engine process launched by the
\* manager is alive.
C1_SingleInstance == Cardinality(ManagerAlive) <= 1

\* C2: a start on a Running manager launches the new engine only after the
\* one that was running is gone, and when it returns True exactly one
\* engine process of the manager is alive.
C2_StopBeforeStart ==
    (op = "start" /\ pre.is_running) =>
        /\ \A i \in Launches : pre.process \notin log[i].live
        /\ ret => Cardinality(ManagerAlive) = 1

\* C3: stop on a manager that is not running returns True, signals no
\* process and leaves is_running false and the handle None, however often
\* it is repeated.
C3_StopIdle ==
    (op = "stop" /\ ~pre.is_running) =>
        /\ ret = TRUE
        /\ log = <<>>
        /\ procs = pre.procs
        /\ is_running = FALSE
        /\ process = None
        /\ config_path = pre.config_path

\* a stop of a stopped manager while an engine process of someone else runs
C3_Witness ==
    /\ op = "stop"
    /\ ~pre.is_running
    /\ pre.config_path # None
    /\ pre.process = None
    /\ \E p \in Pids : procs[p] = "other"

\* C10: restart with no recorded path returns False and changes nothing;
\* with a recorded path it stops, then starts with that path, and returns
\* what that start returns.
C10_Restart ==
    /\ (op = "restart" /\ pre.config_path = None) =>
            /\ ret = FALSE
            /\ log = <<>>
            /\ procs = pre.procs
            /\ is_running = pre.is_running
            /\ process = pre.process
            /\ config_path = None
    /\ (op = "restart" /\ pre.config_path # None) =>
            /\ config_path = pre.config_path
            /\ log # <<>>
            /\ Launches = {Len(log)}
            /\ log[Len(log)].path = pre.config_path
            /\ pre.is_running <=> (log[1].ev = "TERM" /\ log[1].pid = pre.process)
            /\ ~pre.is_running => Len(log) = 1
            /\ ret = is_running
            /\ ret => (log[Len(log)].ok /\ process = log[Len(log)].pid)

\* a restart of a running engine that returned True, and one refused
C10_Witness ==
    /\ op = "restart"
    /\ pre.is_running
    /\ ret = TRUE
    /\ Len(log) >= 3

C10_WitnessNoPath == op = "restart" /\ pre.config_path = None /\ \E p \in Pids : procs[p] = "other"

\* the recorded process was alive when the last call began
AliveAtCall == pre.process # None /\ pre.procs[pre.process] # "free"

\* C11: when the engine has exited on its own while the manager records
\* Running, get_status reports running false and pid None and leaves
\* is_running false and the handle None; and it reports running true only
\* when the recorded process was alive at the call, with that pid.
C11_StatusReconciles ==
    op = "get_status" =>
        /\ (pre.is_running /\ pre.process # None /\ ~AliveAtCall) =>
               /\ ret = FALSE
               /\ ret_pid = None
               /\ is_running = FALSE
               /\ process = None
        /\ ret = TRUE =>
               /\ pre.is_running
               /\ AliveAtCall
               /\ ret_pid = pre.process
               /\ procs[pre.process] = "mgr"

\* a get_status on a manager recording Running whose engine has exited
C11_Witness ==
    /\ op = "get_status"
    /\ pre.is_running
    /\ pre.process # None
    /\ ~AliveAtCall
    /\ ret = FALSE

\* the launch of the last start
LastLaunch == log[Len(log)]

\* C12: start returns True exactly when it leaves is_running true, and only
\* when the process it launched is alive at the check after the grace
\* period; when the launch raised, or the process exited during the grace
\* period, start returns False and is_running is false.
C12_StartOnlyWhenAlive ==
    op = "start" =>
        /\ log # <<>> /\ IsLaunch(LastLaunch)
        /\ ret = is_running
        /\ ret => /\ LastLaunch.pid # None
                  /\ process = LastLaunch.pid
                  /\ procs[process] = "mgr"
        /\ (LastLaunch.pid = None \/ procs[LastLaunch.pid] = "free") =>
                  (ret = FALSE /\ is_running = FALSE)

\* a start whose process exited during the grace period, on a manager that
\* was running
C12_Witness ==
    /\ op = "start"
    /\ pre.is_running
    /\ LastLaunch.pid # None
    /\ procs[LastLaunch.pid] = "free"
    /\ ret = FALSE

\* the last call was a stop of a manager recording Running with a handle
StopOfRunning == op = "stop" /\ pre.is_running /\ pre.process # None

\* C16: a stop of a running engine sends the termination signal first, then
\* polls for the exit at most PollLimit times in the wait loop, and sends
\* the force-kill only after the check behind the loop still saw the
\* process alive; a process seen gone within the bound is not force-killed.
C16_TermPollKill ==
    StopOfRunning =>
        /\ log # <<>>
        /\ log[1].ev = "TERM" /\ log[1].pid = pre.process
        /\ \A i \in 1..Len(log) :
              /\ log[i].ev = "POLL" =>
                    /\ i = 2
                    /\ log[i].pid = pre.process
                    /\ log[i].n <= PollLimit + 1
                    /\ ~log[i].ok => log[i].n = PollLimit + 1
              /\ log[i].ev = "KILL" =>
                    /\ i = 3
                    /\ log[i].pid = pre.process
                    /\ log[2].ev = "POLL" /\ ~log[2].ok
              /\ (log[i].ev = "POLL" /\ log[i].ok) =>
                    \A j \in 1..Len(log) : log[j].ev # "KILL"

\* a stop that had to force-kill, and the kill was delivered
C16_Witness ==
    /\ StopOfRunning
    /\ Len(log) >= 3
    /\ log[3].ev = "KILL" /\ log[3].ok
    /\ ret = TRUE

\* the engine processes of others alive when the last call began
OthersAtCall == { q \in Pids : pre.procs[q] = "other" }

\* C17: every stop, whatever the manager's state and whether or not its own
\* process could be terminated, sweeps the process table: every other
\* engine process alive at the call is sent the termination signal.
C17_SweepOnEveryStop ==
    op = "stop" =>
        \A q \in OthersAtCall : \E i \in 1..Len(log) : log[i].ev = "SWEEP" /\ log[i].pid = q

\* the manager's own process was stopped by the last stop
OwnProcessStopped ==
    /\ StopOfRunning
    /\ Len(log) >= 2
    /\ log[1].ev = "TERM" /\ log[1].ok
    /\ \/ log[2].ev = "POLL" /\ log[2].ok
       \/ Len(log) >= 3 /\ log[3].ev = "KILL" /\ log[3].ok

\* C18: a failure in the sweep (a process that cannot be signalled, has
\* vanished or does not exit in time, or any other error) is not passed on:
\* a stop that stopped its own process returns True with is_running false
\* and the handle None.
C18_SweepFailureNotPropagated ==
    OwnProcessStopped =>
        /\ ret = TRUE
        /\ is_running = FALSE
        /\ process = None

\* a stop that stopped its own process while the sweep left a process of
\* someone else alive
C18_Witness ==
    /\ OwnProcessStopped
    /\ ret = TRUE
    /\ \E q \in OthersAtCall : procs[q] = "other"

\* C19: after every call the manager is Running (is_running true and a
\* handle) or Stopped (is_running false and no handle).
C19_RunningOrStopped ==
    op \in {"start", "stop", "restart", "get_status"} => (is_running <=> process # None)

\* C20: a stop of a running engine, whether it returns True or False,
\* leaves is_running false and the handle None.
C20_StopClearsState ==
    StopOfRunning =>
        /\ is_running = FALSE
        /\ process = None

\* a stop that returned False because the termination signal raised
C20_Witness ==
    /\ StopOfRunning
    /\ ret = FALSE
    /\ Len(log) = 1
    /\ ~log[1].ok

\* C28: a stop of a running engine that returns True leaves the process
\* the manager was running no longer alive.
C28_StoppedEngineNotAlive ==
    (StopOfRunning /\ ret = TRUE) => procs[pre.process] = "free"

\* an engine alive at the call that went away within the wait after the
\* termination signal, and one that had to be force-killed
C28_Witness ==
    /\ StopOfRunning
    /\ ret = TRUE
    /\ pre.procs[pre.process] # "free"
    /\ procs[pre.process] = "free"
    /\ Len(log) >= 2
    /\ log[2].ev = "POLL"
    /\ log[2].ok \/ (Len(log) >= 3 /\ log[3].ev = "KILL")

(***************************************************************************)
(* The controller's properties.                                            *)
(***************************************************************************)
\* C4: after a successful enable directly followed by a successful disable
\* the OS proxy configuration is what it was when that enable began.
C4_EnableDisableRestores == calls \in {"ED", "EED"} => os = os_at_enable

\* C5: after enable, enable, disable the OS proxy configuration is the one
\* the second enable captured, that is the one the first enable applied.
C5_SecondSnapshotRestored == calls = "EED" => os = os_at_enable

(***************************************************************************)
(* The prober's properties.                                                *)
(***************************************************************************)
\* a profile no TCP connection can be made to
Unreachable(c) ==
    \/ "server" \notin DOMAIN c
    \/ "port" \notin DOMAIN c
    \/ "int" \notin DOMAIN c["port"]
    \/ c["port"].int \notin 1..65535
    \/ ConnectTime(c["server"], c["port"].int) = NoneDelay

WithoutDelay(c) == [k \in (DOMAIN c) \ {"delay"} |-> c[k]]

\* C6: for a non-empty input the list returned has one entry per input
\* profile, the same profiles in the same places, each with a delay field,
\* and the delay of every unreachable profile is None.
C6_OneResultPerProfile ==
    (ppc = "returned" /\ configs # <<>>) =>
        /\ Len(result) = Len(configs)
        /\ \A i \in 1..Len(configs) :
            /\ result[i] = configs[i]
            /\ WithoutDelay(heap[result[i]]) = WithoutDelay(heap_at_call[configs[i]])
            /\ "delay" \in DOMAIN heap[result[i]]
            /\ Unreachable(heap_at_call[configs[i]]) => heap[result[i]]["delay"] = NoneDelay

\* a list of reachable and unreachable profiles measured by several threads
C6_Witness ==
    /\ ppc = "returned"
    /\ Len(result) >= 3
    /\ Len(done) >= 2
    /\ \E i, j \in 1..Len(result) :
        /\ Unreachable(heap_at_call[configs[i]])
        /\ ~Unreachable(heap_at_call[configs[j]])
        /\ heap[result[j]]["delay"] # NoneDelay

\* C7: with max_threads = 10 at most 10 worker threads are started,
\* whatever the length of the input.
C7_ThreadCeiling == max_threads = DefaultMaxThreads => Len(done) <= DefaultMaxThreads

\* every started worker has measured the whole of its batch
AllWorkersFinished ==
    /\ Len(done) = Len(batches)
    /\ \A t \in 1..Len(done) : done[t] = Len(batches[t])

\* C22: measure_configs_delay returns only after every worker thread has
\* finished: at the return every profile of the list has its delay field,
\* and no profile is written after the return.
C22_ReturnAfterAllWorkers ==
    /\ [](ppc = "returned" /\ configs # <<>> =>
            /\ AllWorkersFinished
            /\ \A i \in 1..Len(result) : "delay" \in DOMAIN heap[result[i]])
    /\ [][ppc = "returned" => heap' = heap]_vars

\* a call that returned after joining several threads
C22_Witness ==
    /\ ppc = "returned"
    /\ joined >= 2
    /\ joined = Len(batches)
    /\ \E t \in 1..Len(batches) : Len(batches[t]) >= 2

RECURSIVE Concat(_)
Concat(lists) == IF lists = <<>> THEN <<>> ELSE Head(lists) \o Concat(Tail(lists))

\* the threads whose batch holds the dict
WorkersOf(ref) == { t \in 1..Len(batches) : \E k \in 1..Len(batches[t]) : batches[t][k] = ref }

\* C23: the batches are contiguous slices of the list, one after the other,
\* that cover every position once, so each profile's delay is written by
\* exactly one worker.
C23_BatchesPartitionList ==
    (ppc # "call" /\ configs # <<>>) =>
        /\ Concat(batches) = configs_copy
        /\ \A t \in 1..Len(batches) : batches[t] # <<>>
        /\ \A i \in 1..Len(configs_copy) : Cardinality(WorkersOf(configs_copy[i])) = 1

\* a list cut into several batches, the last one shorter than the others
C23_Witness ==
    /\ ppc = "returned"
    /\ Len(batches) >= 3
    /\ Len(batches[Len(batches)]) < Len(batches[1])

\* C24: a probe that fails gives that profile a null delay and does not end
\* its batch: whatever a worker has got past carries a delay field, null
\* where no connection could be made, and the worker goes on to the end.
C24_FailedProbeIsNullDelay ==
    \A t \in 1..Len(done) :
        /\ \A k \in 1..done[t] :
            LET ref == batches[t][k]
            IN /\ "delay" \in DOMAIN heap[ref]
               /\ Unreachable(heap_at_call[ref]) => heap[ref]["delay"] = NoneDelay
        /\ ppc = "returned" => done[t] = Len(batches[t])

\* a batch in which a profile that fails is followed by one that is measured
C24_Witness ==
    /\ ppc = "returned"
    /\ \E t \in 1..Len(batches) : \E k, j \in 1..Len(batches[t]) :
        /\ k < j
        /\ Unreachable(heap_at_call[batches[t][k]])
        /\ heap[batches[t][k]]["delay"] = NoneDelay
        /\ "delay" \in DOMAIN heap[batches[t][j]]
        /\ heap[batches[t][j]]["delay"] # NoneDelay

\* C27: measure_configs_delay works on a copy: the caller's list and the
\* records in it are as they were before the call.
C27_CallerListUntouched ==
    ppc = "returned" =>
        /\ configs = [i \in 1..Len(configs) |-> i]
        /\ \A i \in 1..Len(configs) : heap[configs[i]] = heap_at_call[configs[i]]

\* the profile is one a decoder builds for its kind: the kind is one of the
\* three and every field generate_xray_config subscripts is there
ProfileOfKind(pc) ==
    /\ "type" \in DOMAIN pc
    /\ pc["type"] \in {"ss", "vmess", "vless"}
    /\ Subscripted(pc["type"]) \subseteq DOMAIN pc

Tags(list) == [i \in 1..Len(list) |-> list[i]["tag"]]

\* C8: for a shadowsocks, vmess or vless profile and no base template,
\* generate_xray_config gives a document whose outbounds are exactly the
\* proxy outbound (tagged "proxy", first), the direct outbound and the block
\* outbound in that order, and whose inbounds are exactly [HTTP, SOCKS] when
\* tun_mode is false and exactly the one transparent-redirect inbound when it
\* is true.
C8_OutboundsAndInbounds ==
    (generated # <<>> /\ ProfileOfKind(proxy_config) /\ base_config = EmptyDict) =>
        /\ ~generated[1].error
        /\ LET config == generated[1].config
           IN /\ Len(config["outbounds"]) = 3
              /\ Tags(config["outbounds"]) = <<"proxy", "direct", "block">>
              /\ config["outbounds"][1]["protocol"] =
                     (IF proxy_config["type"] = "ss" THEN "shadowsocks"
                      ELSE proxy_config["type"])
              /\ config["outbounds"][2] = direct_outbound
              /\ config["outbounds"][3] = block_outbound
              /\ ~tun_mode => config["inbounds"] = <<http_inbound, socks_inbound>>
              /\ tun_mode =>
                     /\ Len(config["inbounds"]) = 1
                     /\ config["inbounds"][1]["protocol"] = "dokodemo-door"
                     /\ config["inbounds"][1]["settings"]["followRedirect"]

C8_Witness ==
    /\ generated # <<>>
    /\ ProfileOfKind(proxy_config)
    /\ proxy_config["type"] = "vless"
    /\ base_config = EmptyDict
    /\ tun_mode
    /\ ~generated[1].error
    /\ "tlsSettings" \in DOMAIN generated[1].config["outbounds"][1]["streamSettings"]

\* the credentials of a kind are there and not empty
Credentials(p) ==
    IF p["type"] = "ss"
    THEN /\ "method" \in DOMAIN p /\ p["method"] # <<>>
         /\ "password" \in DOMAIN p /\ p["password"] # <<>>
    ELSE "uuid" \in DOMAIN p /\ p["uuid"] # <<>>

\* every field the kind requires is present and valid
ValidProfile(p) ==
    /\ "server" \in DOMAIN p /\ p["server"] # <<>>
    /\ "port" \in DOMAIN p /\ p["port"].int \in 1..65535
    /\ Credentials(p)

\* C9: for a link of one of the three schemes parse_proxy_url returns either
\* no profile or a profile whose required fields are all present and valid:
\* a non-empty server, a port in 1..65535 and the credentials of its kind.
C9_ErrorOrValidProfile ==
    (parsed /\ url # <<>> /\ Head(url) \in {"ss://", "vmess://", "vless://"}) =>
        (profile = NoProfile \/ ValidProfile(profile[1]))

\* the registry has the OS proxy switched on
ProxyOnInRegistry == Get(os.reg, "ProxyEnable", 0) = 1

\* C14: when enable or disable returns False because a platform call
\* failed, the OS is not left partly configured: a failed enable leaves the
\* configuration it found, a failed disable leaves the OS proxy off, and
\* is_enabled says what the OS has.
C14_FailureLeavesNoPartialConfig ==
    (pop \in {"enable", "disable"} /\ ~pret) =>
        /\ pop = "enable" => os = os_at_enable
        /\ (pop = "disable" /\ system = "Windows") => ~ProxyOnInRegistry
        /\ system = "Windows" => (is_enabled = ProxyOnInRegistry)

\* C15: generate_xray_config given a profile of unknown kind, or one
\* without a field its kind requires, ends in an error; a document it
\* returns has a proxy outbound with a protocol and with server settings.
C15_InvalidProfileFailsClosed ==
    generated # <<>> =>
        /\ ~ProfileOfKind(proxy_config) => generated[1].error
        /\ ~generated[1].error =>
              /\ "protocol" \in DOMAIN generated[1].config["outbounds"][1]
              /\ generated[1].config["outbounds"][1]["settings"] # EmptyDict

\* the text names host:port
Mentions(text, host, port) ==
    \E i \in 1..(Len(text) - 1) : text[i] = host /\ text[i + 1] = port

\* the snapshot slot holds what the OS had when the last enable began
SnapshotOfOsAtEnable ==
    /\ previous_settings # <<>>
    /\ CASE system = "Windows" ->
              previous_settings[1] =
                  [k \in {"ProxyEnable", "ProxyServer", "ProxyOverride"} |->
                      CASE k = "ProxyEnable" -> Get(os_at_enable.reg, k, 0)
                        [] k = "ProxyServer" -> Get(os_at_enable.reg, k, <<>>)
                        [] OTHER -> Get(os_at_enable.reg, k, <<"<local>">>)]
         [] system = "Darwin" ->
              /\ DOMAIN previous_settings[1] = {"http_enabled", "https_enabled", "socks_enabled"}
              /\ previous_settings[1]["http_enabled"] = os_at_enable.web.enabled
              /\ previous_settings[1]["https_enabled"] = os_at_enable.secure.enabled
              /\ previous_settings[1]["socks_enabled"] = os_at_enable.socks.enabled
         [] system = "Linux" ->
              \A k \in DOMAIN os_at_enable.env :
                  k \in DOMAIN previous_settings[1] /\ previous_settings[1][k] = os_at_enable.env[k]
         [] OTHER -> FALSE

\* the OS sends HTTP and HTTPS to 127.0.0.1:http_port and SOCKS to
\* 127.0.0.1:socks_port
OsPointsAtLocalPorts ==
    CASE system = "Windows" ->
              /\ Get(os.reg, "ProxyEnable", 0) = 1
              /\ Mentions(Get(os.reg, "ProxyServer", <<>>), Localhost, http_port)
              /\ Mentions(Get(os.reg, "ProxyServer", <<>>), Localhost, socks_port)
      [] system = "Darwin" ->
              /\ os.web = Service(TRUE, <<Localhost, http_port>>)
              /\ os.secure = Service(TRUE, <<Localhost, http_port>>)
              /\ os.socks = Service(TRUE, <<Localhost, socks_port>>)
      [] system = "Linux" ->
              /\ Mentions(Get(os.env, "http_proxy", <<>>), Localhost, http_port)
              /\ Mentions(Get(os.env, "https_proxy", <<>>), Localhost, http_port)
              /\ Mentions(Get(os.env, "all_proxy", <<>>), Localhost, socks_port)
      [] OTHER -> FALSE

\* C21: an enable that returns True has captured the OS proxy configuration
\* it found before writing, and leaves the OS sending HTTP and HTTPS to
\* 127.0.0.1:http_port and SOCKS to 127.0.0.1:socks_port.
C21_SnapshotThenLocalPorts ==
    (pop = "enable" /\ pret) =>
        /\ SnapshotOfOsAtEnable
        /\ OsPointsAtLocalPorts

\* the protocol named in the outbound of a profile of this type
ProtocolOf(type) == IF type = "ss" THEN "shadowsocks" ELSE type

\* a dict without its "network" key
WithoutNetwork(d) == [k \in (DOMAIN d) \ {"network"} |-> d[k]]

\* the outbound tagged "proxy" of the generated document
GeneratedProxyOutbound ==
    LET obs == generated[1].config["outbounds"]
    IN obs[CHOOSE i \in 1..Len(obs) : obs[i]["tag"] = "proxy"]

\* C25: when the base template has an outbound of the profile's protocol
\* with stream settings, the proxy outbound's stream settings are the base's
\* in every key but "network".
C25_OnlyNetworkOverridden ==
    (/\ generated # <<>>
     /\ ~generated[1].error
     /\ BaseStream(base_config, ProtocolOf(proxy_config["type"])) # <<>>) =>
        /\ "streamSettings" \in DOMAIN GeneratedProxyOutbound
        /\ WithoutNetwork(GeneratedProxyOutbound["streamSettings"])
             = WithoutNetwork(BaseStream(base_config, ProtocolOf(proxy_config["type"]))[1])

\* C29: an enable that returns False leaves what get_status reports as it
\* was before the call: enabled, http_port and socks_port.
C29_FailedEnableKeepsStatus ==
    (pop = "enable" /\ ~pret) => proxy_get_status(ProxySnapshot) = status_at_call

(***************************************************************************)
(* The main window's properties.                                           *)
(***************************************************************************)
\* C26: the main window calls enable only while the supervisor reports
\* running: in connect only after the start it made returned True, in
\* toggle_system_proxy and load_settings only with is_running true; no
\* enable follows a start that failed.
C26_EnableOnlyWhenRunning ==
    \A i \in 1..Len(enables) :
        /\ enables[i].running
        /\ enables[i].started # <<FALSE>>
        /\ enables[i].by = "connect" => enables[i].started = <<TRUE>>

\* the checkbox switched the proxy on while the engine ran, after a connect
\* with the box ticked had done so
C26_Witness ==
    /\ mop = "toggle_system_proxy"
    /\ Len(enables) = 1
    /\ enables[1].by = "toggle_system_proxy"
    /\ is_running
    /\ pret

\* a connect with the box ticked whose start failed, and none of whose
\* enables was made
C26_WitnessFailedStart ==
    /\ mop = "connect"
    /\ op = "start"
    /\ ~ret
    /\ enable_system_proxy
    /\ enables = <<>>

\* C30: whatever the connects and disconnects did, while the controller
\* reports the system proxy enabled the supervisor reports running.
C30_EnabledOnlyWhileRunning == is_enabled => is_running

(***************************************************************************)
(* The server list's properties.                                           *)
(***************************************************************************)
\* the delay an item shows: <<>> for None, also when the key is not there
DelayOf(item) == Get(item.config, "delay", NoneDelay)

\* the items as the handler has them when it starts sorting
BeforeSort == [i \in 1..Len(list_before) |-> WithResult(list_before[i], ping_results)]

\* C13: after update_ping_results has sorted the server list, no item
\* without a delay stands before an item with a numeric delay, the numeric
\* delays are in non-decreasing order, and the list holds exactly the items
\* it held before the sort.
C13_SortedNullsLast ==
    updated =>
        /\ \A i, j \in 1..Len(server_list) :
              i < j =>
                 /\ DelayOf(server_list[i]) = NoneDelay => DelayOf(server_list[j]) = NoneDelay
                 /\ (DelayOf(server_list[i]) # NoneDelay /\ DelayOf(server_list[j]) # NoneDelay)
                       => DelayOf(server_list[i])[1] <= DelayOf(server_list[j])[1]
        /\ Len(server_list) = Len(BeforeSort)
        /\ \A i \in 1..Len(BeforeSort) :
              Cardinality({ j \in 1..Len(server_list) : server_list[j] = BeforeSort[i] }) = 1

\* a list of three that the sort had to reorder, with an item without a
\* delay and two different numeric delays
C13_Witness ==
    /\ updated
    /\ Len(server_list) = 3
    /\ server_list # BeforeSort
    /\ DelayOf(server_list[3]) = NoneDelay
    /\ DelayOf(server_list[1]) # NoneDelay
    /\ DelayOf(server_list[2]) # NoneDelay
    /\ DelayOf(server_list[1])[1] < DelayOf(server_list[2])[1]

====
